---- MODULE Spec2Model ----
(***************************************************************************)
(* A model of the ActualBudget client wrapper of ha-actualbudget           *)
(* (custom_components/actualbudget/actualbudget.py) and of its callers     *)
(* (sensor.py, actions.py, config_flow.py).                                *)
(*                                                                         *)
(* The state is the one ActualBudget instance of a config entry (its       *)
(* cached session, the session-started-at stamp, the lock), the executor   *)
(* worker threads that run its *_sync methods, the wall clock, and the     *)
(* remote budget as the actual library shows it to a session.              *)
(***************************************************************************)
EXTENDS Integers, Sequences, FiniteSets, TLC

\* ---------------------------------------------------------------- bounds
MaxSessions == 3        \* sessions create_session may open in one behaviour
TickMinutes == 30       \* minutes the clock advances in one Tick
MaxNow == 90            \* the clock stops here
MaxAccounts == 2        \* accounts the feed lists
MaxTxns == 1            \* distinct feed transactions of one account
MaxItems == 2           \* transactions on one page of the feed
MaxPages == 2           \* pages the feed serves for one account in one run
MaxEntries == 2         \* config entries the user sets up
MaxLen == 5             \* characters of a feed transaction's description
MaxFields == 2          \* fields of the meta and of the merchant of a transaction
MaxGroups == 2          \* groups of the category of a transaction
MaxRows == 3            \* budget-month rows the remote returns
MaxValue == 2           \* values the remote shows for an account or a budget
MaxDaysLen == 3         \* characters of the sync_days of a service call

\* ------------------------------------------------------ program constants
SESSION_TIMEOUT == 30   \* actualbudget.py:27, in minutes
MINIMUM_INTERVAL == 1   \* sensor.py:43, in minutes
None == 0               \* self.actual = None (actualbudget.py:59)

\* The executor's worker threads.
Threads == {"w1", "w2"}

\* Exceptions the actual library and requests raise out of create_session
\* (the imports of actualbudget.py:12-19), and the plain Exception of
\* "Session not validated" (actualbudget.py:125).
ExcKinds == {"SSLError", "ConnectionError", "AuthorizationError",
             "UnknownFileId", "InvalidFile", "InvalidZipFile", "Exception"}

\* The operations that take self._lock (with self._lock: ...).
ReaderOps == {"get_accounts_sync", "get_account_sync",
              "get_budgets_sync", "get_budget_sync"}
LockedOps == ReaderOps \cup {"run_bank_sync_sync", "run_budget_sync_sync",
                             "run_akahu_bank_sync_sync"}

VARIABLES
    actual,             \* self.actual: the cached session (its id) or None
    sessionStartedAt,   \* self.sessionStartedAt, minutes
    file_id,            \* self.file_id: None until a create_session read it
    lock,               \* self._lock: "free" or the thread that holds it
    now,                \* datetime.datetime.now(), minutes
    created,            \* sessions opened so far; their ids are 1..created
    exited,             \* sessions on which __exit__ was called
    remote,             \* the budget on the server: transactions per key
    pend,               \* per session: transactions created, not committed
    setup,              \* progress of sensor.async_setup_entry
    pc,                 \* per thread: where it is
    op,                 \* per thread: the *_sync method it runs
    call,               \* per thread: what its get_session call did
    ret,                \* per thread: what its operation returned
    ak,                 \* per thread: the locals of run_akahu_bank_sync_sync
    flow,               \* the config flow: its step, and what it was told
    fn,                 \* a computation on its own: its input and its result
    entity,             \* the sensor entities of the config entry
    trace,              \* per thread: the calls its sync operation has made
    handler             \* the service call that is handled (actions.py)

vars == <<actual, sessionStartedAt, file_id, lock, now, created, exited,
          remote, pend, setup, pc, op, call, ret, ak, flow, fn, entity,
          trace, handler>>

instanceVars == <<actual, sessionStartedAt, file_id>>
storeVars == <<remote, pend>>

Sessions == 1..MaxSessions

\* A transaction of the budget is known by (date, account, imported id). A
\* feed transaction keeps its date, so the date goes with the id.
FeedAccounts == 1..MaxAccounts
TxnIds == 1..MaxTxns
DateOf(i) == 100 + i
Key(a, i) == <<DateOf(i), a, i>>
Keys == {Key(a, i) : a \in FeedAccounts, i \in TxnIds}
NoTransactions == [k \in Keys |-> 0]

\* What one get_session call has done so far (history of the call).
NoCall == [entryActual |-> None, entryStamp |-> 0, entryNow |-> 0,
           failed |-> None, createdId |-> None, validated |-> None,
           notValidated |-> FALSE, result |-> "none", handle |-> None,
           exc |-> "none"]

\* The next-cursor of a feed response: JSON null or a string.
NullCursor == [null |-> TRUE, text |-> ""]
Str(x) == [null |-> FALSE, text |-> x]
CursorTexts == {"", "none", "None", "c1", "c2"}
NextCursors == {NullCursor} \cup {Str(x) : x \in CursorTexts}

\* str.lower() on the strings of CursorTexts.
Lower(x) == IF x = "None" THEN "none" ELSE x

\* Python's truth value of a cursor: None and "" are false.
Truthy(c) == ~c.null /\ c.text # ""

\* A page of a feed account: the transactions (their ids) it lists.
RECURSIVE SeqsUpTo(_, _)
SeqsUpTo(S, n) ==
    IF n = 0 THEN {<<>>}
    ELSE LET shorter == SeqsUpTo(S, n - 1)
         IN shorter \cup {Append(q, x) : q \in shorter, x \in S}
Pages == SeqsUpTo(TxnIds, MaxItems)

\* Counts for the page the import is at: its transactions, the calls of
\* match_transaction and those that found one, the calls of
\* create_transaction and of ruleset.run.
NoPage == [size |-> 0, lookups |-> 0, hits |-> 0, creates |-> 0, rules |-> 0]

\* The locals of run_akahu_bank_sync_sync, and what the run has done.
NoRun == [accounts |-> 0,           \* len(json_object["items"])
          acct |-> 0,               \* the account of the for loop, 1..accounts
          cursor |-> NullCursor,    \* trans_cursor
          pages |-> 0,              \* trans_cursor_count
          items |-> <<>>,           \* transjson_obj["items"] still to process
          found |-> FALSE,          \* t is not None
          sentCursor |-> FALSE,     \* the last request had a cursor parameter
          sent |-> NullCursor,      \* and this was it
          prev |-> NullCursor,      \* next-cursor of the response before the last
          commits |-> 0,            \* calls of commit in this run
          page |-> NoPage,          \* what was done with the page at hand
          made |-> NoTransactions]  \* transactions this run created

\* Python's None as a return value.
NoValue == "<None>"

\* The config flow before the user opens it.
NoFlow == [at |-> "closed",     \* closed, form, testing, entry, aborted
           error |-> NoValue,   \* errors["base"] of the form
           exc |-> "none",      \* what get_session raised in the test
           entries |-> 0]       \* config entries created so far

\* The sensor entities: one account sensor and one budget sensor.
Entities == {"account", "budget"}

\* actualbudgetAccountSensor.__init__ and actualbudgetBudgetSensor.__init__
\* (sensor.py:115-150, 219-252): the value the set-up read, available.
NewEntity == [balance |-> 1,            \* self._balance
              amounts |-> 1,            \* self._amounts (budget sensor)
              available |-> TRUE,       \* self._available
              last_updated |-> 0,       \* self._balance_last_updated
              updating |-> FALSE,       \* async_update awaits the API
              calls |-> 0,              \* API calls of the latest async_update
              outcome |-> "none"]       \* how the latest async_update ended

\* No service call is handled.
NoHandler == [at |-> "idle", service |-> "none", syncedAt |-> 0,
              started |-> {}, fetched |-> {}]

\* No computation is looked at on its own.
NoFn == [kind |-> "none"]

\* ActualBudget.__init__
Constructed ==
    /\ actual = None
    /\ sessionStartedAt = 0
    /\ file_id = None
    /\ lock = "free"
    /\ now = 0
    /\ created = 0
    /\ exited = {}
    /\ remote = NoTransactions
    /\ pend = [s \in Sessions |-> NoTransactions]
    /\ setup = "new"
    /\ pc = [t \in Threads |-> "idle"]
    /\ op = [t \in Threads |-> "none"]
    /\ call = [t \in Threads |-> NoCall]
    /\ ret = [t \in Threads |-> NoValue]
    /\ ak = [t \in Threads |-> NoRun]
    /\ flow = NoFlow
    /\ entity = [e \in Entities |-> NewEntity]
    /\ trace = [t \in Threads |-> <<>>]
    /\ handler = NoHandler

Init == Constructed /\ fn = NoFn

\* ------------------------------------------------------------ get_session

\* Mutant: the comparison of the age with the TTL is turned round.
Expired_reversed == actual # None /\ sessionStartedAt + SESSION_TIMEOUT > now

\* self.actual and self.sessionStartedAt + SESSION_TIMEOUT < now()
Expired == actual # None /\ sessionStartedAt + SESSION_TIMEOUT < now

\* Where an operation continues once get_session has returned.
BodyPc(o) ==
    CASE o = "get_unique_id_sync" -> "uid72"
      [] o \in ReaderOps -> "query"
      [] o = "run_bank_sync_sync" -> "bs226"
      [] o = "run_budget_sync_sync" -> "bu407"
      [] o = "run_akahu_bank_sync_sync" -> "ak252"
      [] OTHER -> "tc415"

\* Where an exception takes an operation: test_connection_sync catches it
\* (line 429), every other operation lets it out.
ExcPc(o) == IF o = "test_connection_sync" THEN "tc429" ELSE "raised"

\* Mutant: an exception leaves the operation with the lock still held.
Raise_keepsLock(t, k, c) ==
    /\ pc' = [pc EXCEPT ![t] = ExcPc(op[t])]
    /\ lock' = lock
    /\ call' = [call EXCEPT ![t] =
                  [NoCall EXCEPT !.exc = k,
                                 !.result = IF c.result = "none" THEN "raised"
                                            ELSE c.result,
                                 !.failed = c.failed,
                                 !.createdId = c.createdId,
                                 !.notValidated = c.notValidated]]

\* An exception of kind k leaves the operation of thread t, whose call
\* history is c: a with-block releases the lock on the way out. Of the
\* history, what the call came to is kept.
Raise(t, k, c) ==
    /\ pc' = [pc EXCEPT ![t] = ExcPc(op[t])]
    /\ lock' = IF lock = t THEN "free" ELSE lock
    /\ call' = [call EXCEPT ![t] =
                  [NoCall EXCEPT !.exc = k,
                                 !.result = IF c.result = "none" THEN "raised"
                                            ELSE c.result,
                                 !.failed = c.failed,
                                 !.createdId = c.createdId,
                                 !.notValidated = c.notValidated]]

\* A session that is dropped is garbage: nothing reaches what it held.
Drop(s) == [pend EXCEPT ![s] = NoTransactions]

\* Lines 77-85: a cached session older than the TTL is closed and dropped.
\* An exception of __exit__ is logged and the session is dropped all the same.
GsExpire(t) ==
    /\ pc[t] = "gs77"
    /\ call' = [call EXCEPT ![t] = [NoCall EXCEPT !.entryActual = actual,
                                                  !.entryStamp = sessionStartedAt,
                                                  !.entryNow = now]]
    /\ IF Expired
       THEN /\ exited' = exited \cup {actual}
            /\ actual' = None
            /\ pend' = Drop(actual)
       ELSE UNCHANGED <<exited, actual, pend>>
    /\ pc' = [pc EXCEPT ![t] = "gs88"]
    /\ UNCHANGED <<handler, trace, entity, fn, flow, sessionStartedAt, file_id, lock, now, created, remote,
                   setup, op, ret, ak>>

\* Lines 88-97: validate the cached session; validate() may raise, report
\* not validated, or pass, and then sync() may raise. Every failure is logged
\* and drops the session.
ValidateOutcomes == {"ok", "not_validated", "validate_raises", "sync_raises"}

\* Mutant: a session that reports not validated is logged and kept.
GsValidate_keepsNotValidated(t) ==
    /\ pc[t] = "gs88"
    /\ IF actual = None
       THEN UNCHANGED <<actual, pend, call>>
       ELSE \E r \in ValidateOutcomes :
              IF r = "ok"
              THEN /\ call' = [call EXCEPT ![t].validated = actual]
                   /\ UNCHANGED <<actual, pend>>
              ELSE /\ actual' = IF r = "not_validated" THEN actual ELSE None
                   /\ pend' = IF r = "not_validated" THEN pend ELSE Drop(actual)
                   /\ call' = [call EXCEPT ![t].failed = actual]
    /\ pc' = [pc EXCEPT ![t] = "gs100"]
    /\ UNCHANGED <<handler, trace, entity, fn, flow, sessionStartedAt, file_id, lock, now, created, exited,
                   remote, setup, op, ret, ak>>

GsValidate(t) ==
    /\ pc[t] = "gs88"
    /\ IF actual = None
       THEN UNCHANGED <<actual, pend, call>>
       ELSE \E r \in ValidateOutcomes :
              IF r = "ok"
              THEN /\ call' = [call EXCEPT ![t].validated = actual]
                   /\ UNCHANGED <<actual, pend>>
              ELSE /\ actual' = None
                   /\ pend' = Drop(actual)
                   /\ call' = [call EXCEPT ![t].failed = actual]
    /\ pc' = [pc EXCEPT ![t] = "gs100"]
    /\ UNCHANGED <<handler, trace, entity, fn, flow, sessionStartedAt, file_id, lock, now, created, exited,
                   remote, setup, op, ret, ak>>

\* create_session (lines 107-126). Actual(...) may raise before the file id
\* is read; __enter__ may raise after it; validate() may report not
\* validated, which line 125 turns into an Exception; otherwise the new
\* session is returned.
CreateOutcomes(kinds) ==
    [kind : {"raises"}, exc : kinds, fileIdRead : BOOLEAN]
      \cup {[kind |-> "not_validated", exc |-> "Exception", fileIdRead |-> TRUE],
            [kind |-> "ok", exc |-> "none", fileIdRead |-> TRUE]}

\* Mutant: the result of validate() is not looked at.
create_session_unchecked(r) ==
    IF r.kind \in {"ok", "not_validated"} THEN [raised |-> FALSE, exc |-> "none"]
    ELSE [raised |-> TRUE, exc |-> r.exc]

create_session(r) ==
    IF r.kind = "ok" THEN [raised |-> FALSE, exc |-> "none"]
    ELSE [raised |-> TRUE, exc |-> r.exc]

\* Mutant: when the creation raises, the session the call began with is
\* cached again.
GsCreate_restores(t, kinds) ==
    /\ pc[t] = "gs100"
    /\ IF actual # None
       THEN /\ pc' = [pc EXCEPT ![t] = "gs105"]
            /\ UNCHANGED <<actual, sessionStartedAt, file_id, lock, created,
                           pend, call>>
       ELSE /\ created < MaxSessions
            /\ \E r \in CreateOutcomes(kinds) :
                 /\ file_id' = IF r.fileIdRead THEN 1 ELSE file_id
                 /\ IF create_session(r).raised
                    THEN /\ Raise(t, create_session(r).exc,
                                  [call[t] EXCEPT !.notValidated =
                                                    (r.kind = "not_validated")])
                         /\ actual' = call[t].entryActual
                         /\ UNCHANGED <<sessionStartedAt, created, pend>>
                    ELSE /\ created' = created + 1
                         /\ actual' = created + 1
                         /\ sessionStartedAt' = now
                         /\ pend' = [pend EXCEPT ![created + 1] = NoTransactions]
                         /\ call' = [call EXCEPT
                                       ![t].createdId = created + 1,
                                       ![t].validated =
                                           IF r.kind = "ok" THEN created + 1
                                           ELSE call[t].validated,
                                       ![t].notValidated = (r.kind = "not_validated")]
                         /\ pc' = [pc EXCEPT ![t] = "gs105"]
                         /\ UNCHANGED lock
    /\ UNCHANGED <<handler, trace, entity, fn, flow, now, exited, remote, setup, op, ret, ak>>

\* Mutant: a reused session gets a new stamp, so that the TTL slides.
GsCreate_slides(t, kinds) ==
    /\ pc[t] = "gs100"
    /\ IF actual # None
       THEN /\ pc' = [pc EXCEPT ![t] = "gs105"]
            /\ sessionStartedAt' = now
            /\ UNCHANGED <<actual, file_id, lock, created, pend, call>>
       ELSE /\ created < MaxSessions
            /\ \E r \in CreateOutcomes(kinds) :
                 /\ file_id' = IF r.fileIdRead THEN 1 ELSE file_id
                 /\ IF create_session(r).raised
                    THEN /\ Raise(t, create_session(r).exc,
                                  [call[t] EXCEPT !.notValidated =
                                                    (r.kind = "not_validated")])
                         /\ UNCHANGED <<actual, sessionStartedAt, created, pend>>
                    ELSE /\ created' = created + 1
                         /\ actual' = created + 1
                         /\ sessionStartedAt' = now
                         /\ pend' = [pend EXCEPT ![created + 1] = NoTransactions]
                         /\ call' = [call EXCEPT
                                       ![t].createdId = created + 1,
                                       ![t].validated =
                                           IF r.kind = "ok" THEN created + 1
                                           ELSE call[t].validated,
                                       ![t].notValidated = (r.kind = "not_validated")]
                         /\ pc' = [pc EXCEPT ![t] = "gs105"]
                         /\ UNCHANGED lock
    /\ UNCHANGED <<handler, trace, entity, fn, flow, now, exited, remote, setup, op, ret, ak>>

\* Lines 100-103: with no cached session, create one, cache it and stamp it.
GsCreate(t, kinds) ==
    /\ pc[t] = "gs100"
    /\ IF actual # None
       THEN /\ pc' = [pc EXCEPT ![t] = "gs105"]
            /\ UNCHANGED <<actual, sessionStartedAt, file_id, lock, created,
                           pend, call>>
       ELSE /\ created < MaxSessions
            /\ \E r \in CreateOutcomes(kinds) :
                 /\ file_id' = IF r.fileIdRead THEN 1 ELSE file_id
                 /\ IF create_session(r).raised
                    THEN /\ Raise(t, create_session(r).exc,
                                  [call[t] EXCEPT !.notValidated =
                                                    (r.kind = "not_validated")])
                         /\ UNCHANGED <<actual, sessionStartedAt, created, pend>>
                    ELSE /\ created' = created + 1
                         /\ actual' = created + 1
                         /\ sessionStartedAt' = now
                         /\ pend' = [pend EXCEPT ![created + 1] = NoTransactions]
                         /\ call' = [call EXCEPT
                                       ![t].createdId = created + 1,
                                       ![t].validated =
                                           IF r.kind = "ok" THEN created + 1
                                           ELSE call[t].validated,
                                       ![t].notValidated = (r.kind = "not_validated")]
                         /\ pc' = [pc EXCEPT ![t] = "gs105"]
                         /\ UNCHANGED lock
    /\ UNCHANGED <<handler, trace, entity, fn, flow, now, exited, remote, setup, op, ret, ak>>

\* Line 105: return self.actual.session
GsReturn(t) ==
    /\ pc[t] = "gs105"
    /\ call' = [call EXCEPT ![t].result = "returned", ![t].handle = actual]
    /\ pc' = [pc EXCEPT ![t] = BodyPc(op[t])]
    /\ UNCHANGED <<handler, trace, entity, fn, flow, instanceVars, lock, now, created, exited, storeVars, setup,
                   op, ret, ak>>

\* ------------------------------------------------- the callers' operations

\* Once the operation goes on with the handle, the history of the
\* get_session call is over: the handle is what is left of it.
Used(t) ==
    [call EXCEPT ![t] = [NoCall EXCEPT !.result = call[t].result,
                                       !.handle = call[t].handle]]

\* The operation of thread t returns v: its with-block releases the lock.
Return(t, v) ==
    /\ pc' = [pc EXCEPT ![t] = "returned"]
    /\ ret' = [ret EXCEPT ![t] = v]
    /\ lock' = IF lock = t THEN "free" ELSE lock

\* sensor.async_setup_entry, lines 65-68: the entry's ActualBudget is made and
\* its first call is get_unique_id, awaited before anything else uses it.
\* get_unique_id_sync (lines 70-72) calls get_session without the lock.
SetupStart(t) ==
    /\ setup = "new"
    /\ pc[t] = "idle"
    /\ setup' = "running"
    /\ op' = [op EXCEPT ![t] = "get_unique_id_sync"]
    /\ pc' = [pc EXCEPT ![t] = "gs77"]
    /\ UNCHANGED <<handler, trace, entity, fn, flow, instanceVars, lock, now, created, exited, storeVars, call, ret,
                   ak>>

\* Line 72: return self.file_id
UidReturn(t) ==
    /\ pc[t] = "uid72"
    /\ Return(t, "file_id")
    /\ call' = Used(t)
    /\ UNCHANGED <<handler, trace, entity, fn, flow, instanceVars, now, created, exited, storeVars, setup, op, ak>>

\* A lock-guarded operation is started on a worker thread
\* (hass.async_add_executor_job): by the set-up (sensor.py:70, 91), by an
\* entity's async_update (sensor.py:205, 331) or by a service call
\* (actions.py:74, 95), all of them after get_unique_id has returned.
Start(t, o) ==
    /\ setup = "ready"
    /\ pc[t] = "idle"
    /\ op' = [op EXCEPT ![t] = o]
    /\ pc' = [pc EXCEPT ![t] = "lock"]
    /\ UNCHANGED <<handler, trace, entity, fn, flow, instanceVars, lock, now, created, exited, storeVars, setup,
                   call, ret, ak>>

\* with self._lock:  followed by the call of get_session
Acquire(t) ==
    /\ pc[t] = "lock"
    /\ lock = "free"
    /\ lock' = t
    /\ pc' = [pc EXCEPT ![t] = "gs77"]
    /\ UNCHANGED <<handler, trace, entity, fn, flow, instanceVars, now, created, exited, storeVars, setup, op,
                   call, ret, ak>>

\* The queries of get_accounts_sync (135), get_account_sync (150-152),
\* get_budgets_sync (162-186) and get_budget_sync (201-215): they may raise,
\* and the two by-name operations raise when nothing is found.
QueryOutcomes(o) ==
    {"ok", "raises"} \cup
    (IF o \in {"get_account_sync", "get_budget_sync"} THEN {"not_found"} ELSE {})

Query(t) ==
    /\ pc[t] = "query"
    /\ \E r \in QueryOutcomes(op[t]) :
         CASE r = "ok" -> Return(t, "data") /\ call' = Used(t)
           [] r = "raises" -> Raise(t, "Exception", Used(t)[t]) /\ UNCHANGED ret
           [] r = "not_found" -> Raise(t, "Exception: not found", Used(t)[t])
                                 /\ UNCHANGED ret
    /\ UNCHANGED <<handler, trace, entity, fn, flow, instanceVars, now, created, exited, storeVars, setup, op, ak>>

\* Actual.commit: what the session created goes to the server.
Commit(s) ==
    /\ remote' = [k \in Keys |-> remote[k] + pend[s][k]]
    /\ pend' = [pend EXCEPT ![s] = NoTransactions]

\* A call on self.actual: the outcomes of the remote call, and the
\* AttributeError of a call on None.
CallOutcomes == IF actual = None THEN {"raises"} ELSE {"ok", "raises"}

\* Thread t makes the call `name` on self.actual: it is noted together with
\* whether t holds the lock and has the session of get_session.
Called(t, name) ==
    trace' = [trace EXCEPT ![t] =
                Append(@, [name |-> name, locked |-> lock = t,
                           session |-> call[t].result = "returned"])]

\* run_bank_sync_sync, line 226 / run_budget_sync_sync, line 407:
\* self.actual.sync()
SyncStep(t, at, next, name) ==
    /\ pc[t] = at
    /\ Called(t, name)
    /\ \E r \in CallOutcomes :
         IF r = "ok"
         THEN IF next = "returned"
              THEN Return(t, NoValue) /\ call' = Used(t)
              ELSE /\ pc' = [pc EXCEPT ![t] = next]
                   /\ call' = Used(t)
                   /\ UNCHANGED <<lock, ret>>
         ELSE Raise(t, "Exception", Used(t)[t]) /\ UNCHANGED ret
    /\ UNCHANGED <<handler, entity, fn, flow, instanceVars, now, created, exited, storeVars, setup, op, ak>>

\* Mutant: the remote bank sync comes first.
BsSync_bankSyncFirst(t) == SyncStep(t, "bs226", "bs227", "run_bank_sync")

BsSync(t) == SyncStep(t, "bs226", "bs227", "sync")

\* Line 227: self.actual.run_bank_sync()
BsBankSync(t) == SyncStep(t, "bs227", "bs228", "run_bank_sync")

\* Line 407
BuSync(t) == SyncStep(t, "bu407", "returned", "sync")

\* Line 228: self.actual.commit()
BsCommit(t) ==
    /\ pc[t] = "bs228"
    /\ Called(t, "commit")
    /\ \E r \in CallOutcomes :
         IF r = "ok"
         THEN Commit(actual) /\ Return(t, NoValue) /\ call' = Used(t)
         ELSE Raise(t, "Exception", Used(t)[t]) /\ UNCHANGED <<ret, storeVars>>
    /\ UNCHANGED <<handler, entity, fn, flow, instanceVars, now, created, exited, setup, op, ak>>

\* The executor job is over: the awaiting caller has the value or the
\* exception, and the worker thread is free again. The set-up goes on only
\* when get_unique_id returned (sensor.py:68).
Finish(t) ==
    /\ pc[t] \in {"returned", "raised"}
    /\ pc' = [pc EXCEPT ![t] = "idle"]
    /\ op' = [op EXCEPT ![t] = "none"]
    /\ call' = [call EXCEPT ![t] = NoCall]
    /\ ret' = [ret EXCEPT ![t] = NoValue]
    /\ ak' = [ak EXCEPT ![t] = NoRun]
    /\ trace' = [trace EXCEPT ![t] = <<>>]
    /\ setup' = IF op[t] = "get_unique_id_sync"
                THEN (IF pc[t] = "returned" THEN "ready" ELSE "failed")
                ELSE setup
    /\ UNCHANGED <<handler, entity, fn, flow, instanceVars, lock, now, created, exited, storeVars>>

\* Time passes.
Tick ==
    /\ now + TickMinutes <= MaxNow
    /\ now' = now + TickMinutes
    /\ UNCHANGED <<handler, trace, entity, fn, flow, instanceVars, lock, created, exited, storeVars, setup, pc,
                   op, call, ret, ak>>

GetSession(t, kinds) ==
    GsExpire(t) \/ GsValidate(t) \/ GsCreate(t, kinds) \/ GsReturn(t)

\* What a failing server raises in the specifications that do not look at
\* the kind of the exception.
SomeExcKinds == {"ConnectionError"}

Next ==
    \/ \E t \in Threads :
         \/ SetupStart(t)
         \/ UidReturn(t)
         \/ \E o \in LockedOps \ {"run_akahu_bank_sync_sync"} : Start(t, o)
         \/ Acquire(t)
         \/ GetSession(t, SomeExcKinds)
         \/ Query(t)
         \/ BsSync(t) \/ BsBankSync(t) \/ BsCommit(t)
         \/ BuSync(t)
         \/ Finish(t)
    \/ Tick

Spec == Init /\ [][Next]_vars

\* ------------------------------------------------ run_akahu_bank_sync_sync

\* The session handle the run got from get_session (line 251).
SessionOf(t) == call[t].handle

\* match_transaction(s, date, account, imported_id): the session shows the
\* transactions of the server and the ones it created itself.
Visible(s, k) == remote[k] + pend[s][k] > 0

\* The outcomes of a step that calls the feed or the library.
StepOutcomes == {"ok", "raises"}

\* The run of thread t goes on at `next`, still holding the lock.
AkGoto(t, next) ==
    /\ pc' = [pc EXCEPT ![t] = next]
    /\ call' = Used(t)
    /\ UNCHANGED <<handler, lock, ret>>

\* Mutant: an exception rolls back what the run created.
AkRaise_rollsBack(t) ==
    /\ Raise(t, "Exception", Used(t)[t])
    /\ pend' = [pend EXCEPT ![SessionOf(t)] =
                  [k \in Keys |-> pend[SessionOf(t)][k] - ak[t].made[k]]]
    /\ UNCHANGED <<handler, ret, ak, remote>>

\* An exception leaves the run: nothing in it catches one.
AkRaise(t) ==
    /\ Raise(t, "Exception", Used(t)[t])
    /\ UNCHANGED <<handler, ret, ak, storeVars>>

\* Line 252: ruleset = get_ruleset(session)
AkRuleset(t) ==
    /\ pc[t] = "ak252"
    /\ \E r \in StepOutcomes :
         IF r = "ok"
         THEN AkGoto(t, "ak257") /\ UNCHANGED <<ak, storeVars>>
         ELSE AkRaise(t)
    /\ UNCHANGED <<handler, trace, entity, fn, flow, instanceVars, now, created, exited, setup, op>>

\* Lines 257-260: the list of accounts is requested and parsed.
AkAccounts(t) ==
    /\ pc[t] = "ak257"
    /\ \E r \in StepOutcomes :
         IF r = "ok"
         THEN /\ \E n \in 0..MaxAccounts :
                   ak' = [ak EXCEPT ![t].accounts = n]
              /\ AkGoto(t, "ak265")
              /\ UNCHANGED storeVars
         ELSE AkRaise(t)
    /\ UNCHANGED <<handler, trace, entity, fn, flow, instanceVars, now, created, exited, setup, op>>

\* Mutant: trans_cursor is not reset for the next account.
AkAccount_keepsCursor(t) ==
    /\ pc[t] = "ak265"
    /\ IF ak[t].acct < ak[t].accounts
       THEN \E r \in StepOutcomes :
              IF r = "ok"
              THEN /\ ak' = [ak EXCEPT ![t].acct = @ + 1,
                                       ![t].pages = 0]
                   /\ AkGoto(t, "ak300")
                   /\ UNCHANGED storeVars
              ELSE AkRaise(t)
       ELSE AkGoto(t, "ak397") /\ UNCHANGED <<ak, storeVars>>
    /\ UNCHANGED <<handler, trace, entity, fn, flow, instanceVars, now, created, exited, setup, op>>

\* Lines 265-291: the next account of the list, if there is one:
\* get_or_create_account, then the counters and "start with no cursor".
\* After the last account the run goes on to the commit.
AkAccount(t) ==
    /\ pc[t] = "ak265"
    /\ IF ak[t].acct < ak[t].accounts
       THEN \E r \in StepOutcomes :
              IF r = "ok"
              THEN /\ ak' = [ak EXCEPT ![t].acct = @ + 1,
                                       ![t].cursor = NullCursor,
                                       ![t].pages = 0]
                   /\ AkGoto(t, "ak300")
                   /\ UNCHANGED storeVars
              ELSE AkRaise(t)
       ELSE AkGoto(t, "ak397") /\ UNCHANGED <<ak, storeVars>>
    /\ UNCHANGED <<handler, trace, entity, fn, flow, instanceVars, now, created, exited, setup, op>>

\* Lines 295-302: one page is requested, with the cursor parameter when
\* trans_cursor is truthy, and parsed; its next-cursor becomes trans_cursor.
AkRequest(t) ==
    /\ pc[t] = "ak300"
    /\ ak[t].pages < MaxPages
    /\ \E r \in StepOutcomes :
         IF r = "ok"
         THEN /\ \E items \in Pages, next \in NextCursors :
                   ak' = [ak EXCEPT ![t].sentCursor = Truthy(ak[t].cursor),
                                    ![t].sent = IF Truthy(ak[t].cursor)
                                                THEN ak[t].cursor ELSE NullCursor,
                                    ![t].prev = ak[t].cursor,
                                    ![t].cursor = next,
                                    ![t].items = items,
                                    ![t].page = [NoPage EXCEPT
                                                   !.size = Len(items)]]
              /\ AkGoto(t, "ak305")
              /\ UNCHANGED storeVars
         ELSE AkRaise(t)
    /\ UNCHANGED <<handler, trace, entity, fn, flow, instanceVars, now, created, exited, setup, op>>

\* Mutant: the literal "none" does not end the pages.
LastPage_emptyOnly(c) == ~Truthy(c)

\* Line 393: not trans_cursor or trans_cursor.lower() == "none"
LastPage(c) == ~Truthy(c) \/ Lower(c.text) = "none"

\* Mutant: every page is committed as soon as it is done.
AkPage_commits(t) ==
    /\ pc[t] = "ak305"
    /\ ak[t].items = <<>>
    /\ ak' = [ak EXCEPT ![t].pages = @ + 1, ![t].commits = @ + 1,
                        ![t].page = NoPage]
    /\ Commit(actual)
    /\ AkGoto(t, IF LastPage(ak[t].cursor) THEN "ak265" ELSE "ak300")
    /\ UNCHANGED <<handler, trace, entity, fn, flow, instanceVars, now, created, exited, setup, op>>

\* Lines 392-395, after the last transaction of a page: count the page and
\* leave the while loop on the last page.
AkPage(t) ==
    /\ pc[t] = "ak305"
    /\ ak[t].items = <<>>
    /\ ak' = [ak EXCEPT ![t].pages = @ + 1, ![t].page = NoPage]
    /\ AkGoto(t, IF LastPage(ak[t].cursor) THEN "ak265" ELSE "ak300")
    /\ UNCHANGED <<handler, trace, entity, fn, flow, instanceVars, now, created, exited, storeVars, setup, op>>

\* Lines 305-377: the next transaction of the page is read (which raises on
\* a missing field or a date that does not parse) and looked up.
AkMatch(t) ==
    /\ pc[t] = "ak305"
    /\ ak[t].items # <<>>
    /\ \E r \in StepOutcomes :
         IF r = "ok"
         THEN /\ LET hit == Visible(SessionOf(t),
                                     Key(ak[t].acct, Head(ak[t].items)))
                 IN ak' = [ak EXCEPT ![t].found = hit,
                                     ![t].page.lookups = @ + 1,
                                     ![t].page.hits = IF hit THEN @ + 1 ELSE @]
              /\ AkGoto(t, "ak380")
              /\ UNCHANGED storeVars
         ELSE AkRaise(t)
    /\ UNCHANGED <<handler, trace, entity, fn, flow, instanceVars, now, created, exited, setup, op>>

\* Mutant: the transaction is created whether or not it was matched.
AkCreate_always(t) ==
    /\ pc[t] = "ak380"
    /\ \E r \in StepOutcomes :
         IF r = "ok"
         THEN LET k == Key(ak[t].acct, Head(ak[t].items))
              IN /\ pend' = [pend EXCEPT ![SessionOf(t)][k] = @ + 1]
                 /\ ak' = [ak EXCEPT ![t].made[k] = @ + 1,
                                       ![t].page.creates = @ + 1]
                 /\ AkGoto(t, "ak389")
                 /\ UNCHANGED remote
         ELSE AkRaise(t)
    /\ UNCHANGED <<handler, trace, entity, fn, flow, instanceVars, now, created, exited, setup, op>>

\* Lines 380-382: if(t is None): t = create_transaction(...)
AkCreate(t) ==
    /\ pc[t] = "ak380"
    /\ IF ak[t].found
       THEN AkGoto(t, "ak389") /\ UNCHANGED <<ak, storeVars>>
       ELSE \E r \in StepOutcomes :
              IF r = "ok"
              THEN LET k == Key(ak[t].acct, Head(ak[t].items))
                   IN /\ pend' = [pend EXCEPT ![SessionOf(t)][k] = @ + 1]
                      /\ ak' = [ak EXCEPT ![t].made[k] = @ + 1,
                                       ![t].page.creates = @ + 1]
                      /\ AkGoto(t, "ak389")
                      /\ UNCHANGED remote
              ELSE AkRaise(t)
    /\ UNCHANGED <<handler, trace, entity, fn, flow, instanceVars, now, created, exited, setup, op>>

\* Mutant: the rules are run on new transactions only.
AkRules_onlyNew(t) ==
    /\ pc[t] = "ak389"
    /\ \E r \in StepOutcomes :
         IF r = "ok"
         THEN /\ ak' = [ak EXCEPT ![t].items = Tail(@), ![t].found = FALSE,
                                  ![t].page.rules =
                                     IF ak[t].found THEN @ ELSE @ + 1]
              /\ AkGoto(t, "ak305")
              /\ UNCHANGED storeVars
         ELSE AkRaise(t)
    /\ UNCHANGED <<handler, trace, entity, fn, flow, instanceVars, now, created, exited, setup, op>>

\* Line 389: ruleset.run(t), and on to the next transaction of the page.
AkRules(t) ==
    /\ pc[t] = "ak389"
    /\ \E r \in StepOutcomes :
         IF r = "ok"
         THEN /\ ak' = [ak EXCEPT ![t].items = Tail(@), ![t].found = FALSE,
                                  ![t].page.rules = @ + 1]
              /\ AkGoto(t, "ak305")
              /\ UNCHANGED storeVars
         ELSE AkRaise(t)
    /\ UNCHANGED <<handler, trace, entity, fn, flow, instanceVars, now, created, exited, setup, op>>

\* Line 397, after the loops: self.actual.commit()
AkCommit(t) ==
    /\ pc[t] = "ak397"
    /\ \E r \in CallOutcomes :
         IF r = "ok"
         THEN /\ Commit(actual)
              /\ ak' = [ak EXCEPT ![t].commits = @ + 1]
              /\ Return(t, NoValue)
              /\ call' = Used(t)
         ELSE AkRaise(t)
    /\ UNCHANGED <<handler, trace, entity, fn, flow, instanceVars, now, created, exited, setup, op>>

Akahu(t) ==
    \/ AkRuleset(t) \/ AkAccounts(t) \/ AkAccount(t) \/ AkRequest(t)
    \/ AkPage(t) \/ AkMatch(t) \/ AkCreate(t) \/ AkRules(t) \/ AkCommit(t)

\* The importer next to the bank sync, the other operation that commits.
\* The lock lets one of them run at a time, so one worker runs them in turn.
OneWorker == {"w1"}

NextAkahu ==
    \/ \E t \in OneWorker :
         \/ SetupStart(t)
         \/ UidReturn(t)
         \/ \E o \in {"run_akahu_bank_sync_sync", "run_bank_sync_sync"} : Start(t, o)
         \/ Acquire(t)
         \/ GetSession(t, SomeExcKinds)
         \/ Akahu(t)
         \/ BsSync(t) \/ BsBankSync(t) \/ BsCommit(t)
         \/ Finish(t)
    \/ Tick

SpecAkahu == Init /\ [][NextAkahu]_vars

\* The feed ends: the last page the feed may serve for an account (bound
\* MaxPages) comes with a next-cursor that is null, empty or "none".
FeedEnds(t) ==
    (pc[t] = "ak300" /\ ak[t].pages = MaxPages - 1 /\ pc'[t] = "ak305") =>
       (ak'[t].cursor.null \/ Lower(ak'[t].cursor.text) \in {"", "none"})

\* A step of the import against a feed that ends.
AkahuStep(t) == Akahu(t) /\ FeedEnds(t)

\* The thread that imports, and the thread that reads the accounts (a
\* sensor's update) while the import runs.
Importer == "w1"
Reader == "w2"

NextTermination ==
    \/ SetupStart(Importer)
    \/ UidReturn(Importer)
    \/ Start(Importer, "run_akahu_bank_sync_sync")
    \/ Start(Reader, "get_accounts_sync")
    \/ Query(Reader)
    \/ AkahuStep(Importer)
    \/ \E t \in Threads :
         \/ Acquire(t)
         \/ GetSession(t, SomeExcKinds)
         \/ Finish(t)

\* Every remote call of the import returns or raises: the import is not
\* held up for ever (the calls are blocking calls on a worker thread).
SpecTermination ==
    Init /\ [][NextTermination]_vars /\ WF_vars(AkahuStep(Importer))

\* Every lock-guarded operation: the import on one thread, and each of the
\* other operations on the other thread.
NextLocked ==
    \/ SetupStart(Importer)
    \/ UidReturn(Importer)
    \/ Start(Importer, "run_akahu_bank_sync_sync")
    \/ Akahu(Importer)
    \/ \E o \in LockedOps \ {"run_akahu_bank_sync_sync"} : Start(Reader, o)
    \/ Query(Reader)
    \/ BsSync(Reader) \/ BsBankSync(Reader) \/ BsCommit(Reader)
    \/ BuSync(Reader)
    \/ \E t \in Threads :
         \/ Acquire(t)
         \/ GetSession(t, SomeExcKinds)
         \/ Finish(t)

SpecLocked == Init /\ [][NextLocked]_vars

\* ----------------------------------- the config flow and test_connection

\* config_flow.py:54-55: the user opens the flow and is shown the form.
FlowOpen ==
    /\ flow.at \in {"closed", "entry", "aborted"}
    /\ flow.entries < MaxEntries
    /\ flow' = [NoFlow EXCEPT !.at = "form", !.entries = flow.entries]
    /\ UNCHANGED <<handler, trace, entity, fn, instanceVars, lock, now, created, exited, storeVars, setup,
                   pc, op, call, ret, ak>>

\* config_flow.py:57-81 and 93-96: the user submits the form. A unique id
\* that is configured already aborts the flow; otherwise a new ActualBudget
\* is made (__init__, lines 52-64) and its test_connection_sync, which calls
\* get_session without the lock (line 414), is run on a worker.
FlowSubmit(t) ==
    /\ flow.at = "form"
    /\ pc[t] = "idle"
    /\ \E configured \in (IF flow.entries > 0 THEN BOOLEAN ELSE {FALSE}) :
         IF configured
         THEN /\ flow' = [flow EXCEPT !.at = "aborted"]
              /\ UNCHANGED <<instanceVars, lock, pc, op>>
         ELSE /\ flow' = [flow EXCEPT !.at = "testing", !.error = NoValue,
                                      !.exc = "none"]
              /\ actual' = None
              /\ sessionStartedAt' = now
              /\ file_id' = None
              /\ lock' = "free"
              /\ op' = [op EXCEPT ![t] = "test_connection_sync"]
              /\ pc' = [pc EXCEPT ![t] = "gs77"]
    /\ UNCHANGED <<handler, trace, entity, fn, now, created, exited, storeVars, setup, call, ret, ak>>

\* Lines 415-416 and 431: "failed_file" for a handle that is falsy, else None.
TcReturn(t) ==
    /\ pc[t] = "tc415"
    /\ Return(t, IF call[t].handle = None THEN "failed_file" ELSE NoValue)
    /\ call' = Used(t)
    /\ UNCHANGED <<handler, trace, entity, fn, flow, instanceVars, now, created, exited, storeVars, setup,
                   op, ak>>

\* Mutant: the exception is logged and raised again.
TcCatch_reraises(t) ==
    /\ pc[t] = "tc429"
    /\ pc' = [pc EXCEPT ![t] = "raised"]
    /\ UNCHANGED <<handler, trace, entity, fn, flow, instanceVars, lock, now, created, exited, storeVars,
                   setup, op, call, ret, ak>>

\* Lines 429-431: except Exception: the exception is logged, and None is
\* returned. The handlers of lines 417-428 are comments.
TcCatch(t) ==
    /\ pc[t] = "tc429"
    /\ Return(t, NoValue)
    /\ UNCHANGED <<handler, trace, entity, fn, flow, instanceVars, now, created, exited, storeVars, setup,
                   op, call, ak>>

\* config_flow.py:82-91: with an error the form is shown again with it,
\* without one the config entry is created.
FlowReact(t) ==
    /\ flow.at = "testing"
    /\ pc[t] = "returned"
    /\ flow' = IF ret[t] # NoValue
               THEN [flow EXCEPT !.at = "form", !.error = ret[t],
                                 !.exc = call[t].exc]
               ELSE [flow EXCEPT !.at = "entry", !.exc = call[t].exc,
                                 !.entries = @ + 1]
    /\ pc' = [pc EXCEPT ![t] = "idle"]
    /\ op' = [op EXCEPT ![t] = "none"]
    /\ call' = [call EXCEPT ![t] = NoCall]
    /\ ret' = [ret EXCEPT ![t] = NoValue]
    /\ UNCHANGED <<handler, trace, entity, fn, instanceVars, lock, now, created, exited, storeVars, setup, ak>>

NextFlow ==
    \/ FlowOpen
    \/ \E t \in OneWorker :
         \/ FlowSubmit(t)
         \/ GetSession(t, ExcKinds)
         \/ TcReturn(t)
         \/ TcCatch(t)
         \/ FlowReact(t)
    \/ Tick

SpecFlow == Init /\ [][NextFlow]_vars

\* ------------------------------------------------------ the payee (line 358)

\* A string is the sequence of its characters. The characters of a
\* description: a letter, a digit, and the white space str.strip() removes.
NL == "\n"
Digits == {"1"}
WhiteSpace == {" ", NL}
Chars == {"A"} \cup Digits \cup WhiteSpace

Strings(n) == SeqsUpTo(Chars, n)

\* The length of the run of digits of d that ends at position e.
RECURSIVE DigitRun(_, _)
DigitRun(d, e) ==
    IF e >= 1 /\ d[e] \in Digits THEN 1 + DigitRun(d, e - 1) ELSE 0

\* Where "$" matches behind a digit: at the end of the string, and before a
\* line break that ends the string.
DollarAt(d) ==
    IF Len(d) > 0 /\ d[Len(d)] = NL THEN Len(d) - 1 ELSE Len(d)

\* Mutant: the pattern is \d{2,}$
StripDigits_twoOrMore(d) ==
    LET e == DollarAt(d)
        n == DigitRun(d, e)
    IN IF n >= 2 THEN SubSeq(d, 1, e - n) \o SubSeq(d, e + 1, Len(d)) ELSE d

\* re.sub(r'\d{3,}$', '', d): the leftmost match is the whole run of digits
\* before the "$", and it is taken out when it has three digits or more.
StripDigits(d) ==
    LET e == DollarAt(d)
        n == DigitRun(d, e)
    IN IF n >= 3 THEN SubSeq(d, 1, e - n) \o SubSeq(d, e + 1, Len(d)) ELSE d

\* str.strip()
RECURSIVE LStrip(_)
LStrip(d) == IF d # <<>> /\ Head(d) \in WhiteSpace THEN LStrip(Tail(d)) ELSE d

RECURSIVE RStrip(_)
RStrip(d) ==
    IF d # <<>> /\ d[Len(d)] \in WhiteSpace
    THEN RStrip(SubSeq(d, 1, Len(d) - 1)) ELSE d

Strip(d) == LStrip(RStrip(d))

\* Line 358: trans_desc = (re.sub(r'\d{3,}$', '', trans_desc)).strip(),
\* which line 366 passes as the payee.
PayeeOf(d) == Strip(StripDigits(d))

InitPayee ==
    /\ Constructed
    /\ fn \in [kind : {"payee"}, d : Strings(MaxLen), done : {FALSE},
               payee : {<<>>}]

\* The import comes to line 358 with the description fn.d.
MakePayee ==
    /\ fn.kind = "payee" /\ ~fn.done
    /\ fn' = [fn EXCEPT !.done = TRUE, !.payee = PayeeOf(fn.d)]
    /\ UNCHANGED <<handler, trace, entity, instanceVars, lock, now, created, exited, storeVars, setup,
                   pc, op, call, ret, ak, flow>>

NextPayee == MakePayee

SpecPayee == InitPayee /\ [][NextPayee]_vars

\* ------------------------------------- notes and category (lines 316-374)

\* str.lower() on the characters that values are written with here.
LowerChar(c) ==
    CASE c = "C" -> "c" [] c = "K" -> "k" [] c = "A" -> "a" [] c = "L" -> "l"
      [] OTHER -> c
LowerOf(v) == [i \in 1..Len(v) |-> LowerChar(v[i])]

\* sub in v
Contains(v, sub) ==
    \E i \in 1..(Len(v) - Len(sub) + 1) : SubSeq(v, i, i + Len(sub) - 1) = sub

\* Mutant: the value is looked at as it is written.
cleanup_meta_caseSensitive(v) ==
    IF Contains(v, <<"c", "d", "n", ".">>) THEN <<>>
    ELSE IF Contains(v, <<"a", "k", "a", "h", "u">>) THEN <<>>
    ELSE v

\* cleanup_meta, lines 234-241
cleanup_meta(v) ==
    IF Contains(LowerOf(v), <<"c", "d", "n", ".">>) THEN <<>>
    ELSE IF Contains(LowerOf(v), <<"a", "k", "a", "h", "u">>) THEN <<>>
    ELSE v

\* Values of the fields of a feed transaction: "x", "Cdn.x", "cdn", "aKahu".
FieldValues == {<<"x">>, <<"C", "d", "n", ".", "x">>, <<"c", "d", "n">>,
                <<"a", "K", "a", "h", "u">>}
FieldKeys == {"_id", "name", "logo"}

\* The items() of a JSON object, in its order: no key comes twice.
FieldLists ==
    {f \in SeqsUpTo([key : FieldKeys, value : FieldValues], MaxFields) :
       \A i, j \in 1..Len(f) : f[i].key = f[j].key => i = j}

\* trans_meta_summary = None, trans_merchant_summary = None (lines 310-311)
NoSummary == [set |-> FALSE, text |-> <<>>]

\* Lines 318-325 and 336-343: every field but _id is cleaned and joined to
\* the summary, with two blanks before it unless it is the first.
RECURSIVE Summary(_, _)
Summary(fields, acc) ==
    IF fields = <<>> THEN acc
    ELSE LET f == Head(fields)
             m == cleanup_meta(f.value)
         IN IF f.key = "_id" THEN Summary(Tail(fields), acc)
            ELSE Summary(Tail(fields),
                         IF acc.set
                         THEN [set |-> TRUE, text |-> acc.text \o <<" ", " ">> \o m]
                         ELSE [set |-> TRUE, text |-> m])

\* if(summary): a summary that is None or "" adds nothing to the notes.
SummaryPart(sm) == IF sm.set /\ sm.text # <<>> THEN sm.text \o <<" ">> ELSE <<>>

\* The category of a feed transaction: none, or a name and its groups.
NoCategory == [present |-> FALSE, name |-> <<>>, groups |-> <<>>]
Categories ==
    {NoCategory} \cup
    [present : {TRUE}, name : {<<"F">>},
     groups : SeqsUpTo({<<"G">>, <<"H">>}, MaxGroups)]

\* Mutant: the category is read whatever sync_categories says.
CategoryOf_ungated(sync_categories, c) ==
    IF c.present
    THEN [raised |-> c.groups = <<>>, name |-> c.name,
          parent |-> IF c.groups = <<>> THEN <<>> ELSE c.groups[1],
          set |-> c.groups # <<>>]
    ELSE [raised |-> FALSE, name |-> <<>>, parent |-> <<>>, set |-> FALSE]

\* Lines 326-333: trans_category and trans_category_parent; group_names[0]
\* raises IndexError when the category has no group.
CategoryOf(sync_categories, c) ==
    IF sync_categories /\ c.present
    THEN [raised |-> c.groups = <<>>, name |-> c.name,
          parent |-> IF c.groups = <<>> THEN <<>> ELSE c.groups[1],
          set |-> c.groups # <<>>]
    ELSE [raised |-> FALSE, name |-> <<>>, parent |-> <<>>, set |-> FALSE]

\* Mutant: the merchant summary is put before the meta summary.
NotesOf_merchantFirst(meta, merchant, category_name, desc) ==
    SummaryPart(Summary(merchant, NoSummary))
      \o SummaryPart(Summary(meta, NoSummary))
      \o (IF category_name # <<>> THEN category_name \o <<" ">> ELSE <<>>)
      \o desc

\* Lines 346-353: trans_notes
NotesOf(meta, merchant, category_name, desc) ==
    SummaryPart(Summary(meta, NoSummary))
      \o SummaryPart(Summary(merchant, NoSummary))
      \o (IF category_name # <<>> THEN category_name \o <<" ">> ELSE <<>>)
      \o desc

\* Lines 305-374 for one transaction: what is passed to create_transaction.
\* The category argument is there when trans_category_parent is not None.
ParamsOf(txn, sync_categories) ==
    LET c == CategoryOf(sync_categories, txn.category)
    IN [raised |-> c.raised,
        notes |-> IF c.raised THEN <<>>
                  ELSE NotesOf(txn.meta, txn.merchant, c.name, txn.description),
        hasCategory |-> ~c.raised /\ c.set,
        category |-> IF c.raised THEN <<>> ELSE c.parent,
        payee |-> IF c.raised THEN <<>> ELSE PayeeOf(txn.description)]

FeedTransactions ==
    [meta : FieldLists, merchant : FieldLists, category : Categories,
     description : {<<"d", "1", "1", "1">>}]

NoParams == [raised |-> FALSE, notes |-> <<>>, hasCategory |-> FALSE,
             category |-> <<>>, payee |-> <<>>]

InitNotes ==
    /\ Constructed
    /\ fn \in [kind : {"notes"}, txn : FeedTransactions,
               sync_categories : BOOLEAN, done : {FALSE}, params : {NoParams}]

\* The import builds the parameters of the transaction fn.txn.
MakeParams ==
    /\ fn.kind = "notes" /\ ~fn.done
    /\ fn' = [fn EXCEPT !.done = TRUE,
                        !.params = ParamsOf(fn.txn, fn.sync_categories)]
    /\ UNCHANGED <<handler, trace, entity, instanceVars, lock, now, created, exited, storeVars, setup,
                   pc, op, call, ret, ak, flow>>

NextNotes == MakeParams

SpecNotes == InitNotes /\ [][NextNotes]_vars

\* ---------------------------- accounts and budgets as values (lines 132-216)

\* Names of accounts and of budget categories.
Names == {"Food", "Rent"}

\* A month as a string: the sequence of its digits.
Months == {<<0, 1>>, <<0, 2>>, <<1, 0>>}

\* a < b for strings of digits
RECURSIVE StrLess(_, _)
StrLess(a, b) ==
    IF a = <<>> THEN b # <<>>
    ELSE IF b = <<>> THEN FALSE
    ELSE IF Head(a) # Head(b) THEN Head(a) < Head(b)
    ELSE StrLess(Tail(a), Tail(b))

\* A number of the remote that may be null.
Null == [null |-> TRUE, v |-> 0]
Num(v) == [null |-> FALSE, v |-> v]

\* budget_raw.amount: null, or an amount in minor units.
RawAmounts == {Null, Num(0), Num(150)}

\* The amount of a BudgetAmount: None, or the float n / d.
Absent == [none |-> TRUE, n |-> 0, d |-> 1]
Ratio(n, d) == [none |-> FALSE, n |-> n, d |-> d]

\* Mutant: a null amount is taken for 0.
AmountOf_nullIsZero(raw) ==
    IF raw.null THEN Ratio(0, 100) ELSE Ratio(raw.v, 100)

\* Lines 168-170 and 207-209:
\* None if not budget_raw.amount else (float(budget_raw.amount) / 100)
AmountOf(raw) ==
    IF raw.null \/ raw.v = 0 THEN Absent ELSE Ratio(raw.v, 100)

\* A budget-month row of the remote; its category may be missing.
Rows == [category : Names \cup {NoValue}, month : Months, amount : RawAmounts]
RowLists == SeqsUpTo(Rows, MaxRows)

\* BudgetAmount(month=month, amount=amount)
BudgetAmount(row) == [month |-> row.month, amount |-> AmountOf(row.amount)]

\* sorted(amounts, key=lambda x: x.month): a stable sort; x goes behind
\* every element whose month is not greater than its own.
RECURSIVE Insert(_, _)
Insert(sorted, x) ==
    IF sorted = <<>> THEN <<x>>
    ELSE IF StrLess(x.month, Head(sorted).month)
         THEN <<x>> \o sorted
         ELSE <<Head(sorted)>> \o Insert(Tail(sorted), x)

RECURSIVE Sorted(_)
Sorted(amounts) ==
    IF amounts = <<>> THEN <<>>
    ELSE Insert(Sorted(SubSeq(amounts, 1, Len(amounts) - 1)),
                amounts[Len(amounts)])

\* Mutant: the amounts stay in the order of the rows.
SortedAmounts_unsorted(amounts) == amounts

\* Lines 180-182 and 212
SortedAmounts(amounts) == Sorted(amounts)

\* The rows of one category, as BudgetAmounts in the order of the rows.
RECURSIVE AmountsOf(_, _)
AmountsOf(rows, name) ==
    IF rows = <<>> THEN <<>>
    ELSE (IF Head(rows).category = name THEN <<BudgetAmount(Head(rows))>>
          ELSE <<>>) \o AmountsOf(Tail(rows), name)

\* The categories of the rows in the order in which they come first
\* (the keys of the dict budgets); rows without a category are skipped.
RECURSIVE CategoriesOf(_, _)
CategoriesOf(rows, seen) ==
    IF rows = <<>> THEN <<>>
    ELSE LET c == Head(rows).category
         IN IF c = NoValue \/ c \in seen THEN CategoriesOf(Tail(rows), seen)
            ELSE <<c>> \o CategoriesOf(Tail(rows), seen \cup {c})

\* Lines 183-186 and 213-215: the balance of the category, 0 when
\* get_category finds none.
BalanceOf(balances, name) ==
    IF balances[name].null THEN 0 ELSE balances[name].v

\* get_budgets_sync, lines 162-187
get_budgets_sync(rows, balances) ==
    LET cats == CategoriesOf(rows, {})
    IN [raised |-> FALSE, error |-> "",
        value |-> [i \in 1..Len(cats) |->
                     [name |-> cats[i],
                      amounts |-> SortedAmounts(AmountsOf(rows, cats[i])),
                      balance |-> BalanceOf(balances, cats[i])]]]

\* get_budgets(session, None, budget_name) of the library: the rows of the
\* category of that name.
RECURSIVE RowsOf(_, _)
RowsOf(rows, name) ==
    IF rows = <<>> THEN <<>>
    ELSE (IF Head(rows).category = name THEN <<Head(rows)>> ELSE <<>>)
         \o RowsOf(Tail(rows), name)

\* Mutant: a budget without rows is returned empty.
get_budget_sync_noCheck(rows, balances, budget_name) ==
    [raised |-> FALSE, error |-> "",
     value |-> [name |-> budget_name,
                amounts |-> SortedAmounts(AmountsOf(RowsOf(rows, budget_name),
                                                    budget_name)),
                balance |-> BalanceOf(balances, budget_name)]]

\* get_budget_sync, lines 201-216
get_budget_sync(rows, balances, budget_name) ==
    LET budgets_raw == RowsOf(rows, budget_name)
    IN IF budgets_raw = <<>>
       THEN [raised |-> TRUE, error |-> "not found", value |-> <<>>]
       ELSE [raised |-> FALSE, error |-> "",
             value |-> [name |-> budget_name,
                        amounts |-> SortedAmounts(AmountsOf(budgets_raw,
                                                            budget_name)),
                        balance |-> BalanceOf(balances, budget_name)]]

\* get_account_sync, lines 150-153; get_account of the library gives the
\* account of that name, or None. balances[n] is the balance of the account
\* n, null when the remote has no such account.
get_account_sync(balances, account_name) ==
    IF balances[account_name].null
    THEN [raised |-> TRUE, error |-> "not found", value |-> <<>>]
    ELSE [raised |-> FALSE, error |-> "",
          value |-> [name |-> account_name,
                     balance |-> balances[account_name].v]]

\* What the remote holds: the budget rows, and per name the balance of the
\* account and of the category of that name, if there is one.
InitReader ==
    /\ Constructed
    /\ fn \in [kind : {"reader"}, rows : RowLists,
               balances : [Names -> {Null, Num(7)}],
               name : {"Food"}, op : {"none"}, done : {FALSE},
               out : {[raised |-> FALSE, error |-> "", value |-> <<>>]}]

ReadBudgets ==
    /\ fn.kind = "reader" /\ ~fn.done
    /\ fn' = [fn EXCEPT !.done = TRUE, !.op = "get_budgets_sync",
                        !.out = get_budgets_sync(fn.rows, fn.balances)]
    /\ UNCHANGED <<handler, trace, entity, instanceVars, lock, now, created, exited, storeVars, setup,
                   pc, op, call, ret, ak, flow>>

ReadBudget ==
    /\ fn.kind = "reader" /\ ~fn.done
    /\ fn' = [fn EXCEPT !.done = TRUE, !.op = "get_budget_sync",
                        !.out = get_budget_sync(fn.rows, fn.balances, fn.name)]
    /\ UNCHANGED <<handler, trace, entity, instanceVars, lock, now, created, exited, storeVars, setup,
                   pc, op, call, ret, ak, flow>>

ReadAccount ==
    /\ fn.kind = "reader" /\ ~fn.done
    /\ fn' = [fn EXCEPT !.done = TRUE, !.op = "get_account_sync",
                        !.out = get_account_sync(fn.balances, fn.name)]
    /\ UNCHANGED <<handler, trace, entity, instanceVars, lock, now, created, exited, storeVars, setup,
                   pc, op, call, ret, ak, flow>>

NextReader == ReadBudgets \/ ReadBudget \/ ReadAccount

SpecReader == InitReader /\ [][NextReader]_vars

\* ------------------------------------------- the sensors (sensor.py:196-342)

\* The API call of the async_update of an entity (sensor.py:205, 331).
CallOf(e) == IF e = "account" THEN "get_account_sync" ELSE "get_budget_sync"

\* What the remote shows for an account or a budget.
Values == 1..MaxValue

\* The worker thread is free for the next executor job.
Released(t) ==
    /\ pc' = [pc EXCEPT ![t] = "idle"]
    /\ op' = [op EXCEPT ![t] = "none"]
    /\ call' = [call EXCEPT ![t] = NoCall]
    /\ ret' = [ret EXCEPT ![t] = NoValue]

\* sensor.py:196-205 and 322-331: async_update returns at once when the
\* entity was updated less than MINIMUM_INTERVAL ago; otherwise it calls
\* api.get_account / api.get_budget, which runs on a worker thread.
AsyncUpdate(e, t) ==
    /\ setup = "ready"
    /\ ~entity[e].updating
    /\ pc[t] = "idle"
    /\ IF now - entity[e].last_updated < MINIMUM_INTERVAL
       THEN /\ entity' = [entity EXCEPT ![e].calls = 0, ![e].outcome = "returned"]
            /\ UNCHANGED <<pc, op>>
       ELSE /\ entity' = [entity EXCEPT ![e].updating = TRUE, ![e].calls = 1,
                                        ![e].outcome = "none"]
            /\ op' = [op EXCEPT ![t] = CallOf(e)]
            /\ pc' = [pc EXCEPT ![t] = "lock"]
    /\ UNCHANGED <<trace, fn, flow, instanceVars, lock, now, created, exited,
                   storeVars, setup, call, ret, ak>>

\* Mutant: an update that succeeds makes the entity available again.
AfterCall_recovers(e, t, v) ==
    IF pc[t] = "returned"
    THEN [entity[e] EXCEPT !.balance = v,
                           !.amounts = IF e = "budget" THEN v ELSE @,
                           !.last_updated = now,
                           !.available = TRUE,
                           !.updating = FALSE, !.outcome = "returned"]
    ELSE [entity[e] EXCEPT !.available = FALSE,
                           !.updating = FALSE, !.outcome = "returned"]

\* Mutant: the exception is logged and the entity stays available.
AfterCall_staysAvailable(e, t, v) ==
    IF pc[t] = "returned"
    THEN [entity[e] EXCEPT !.balance = v,
                           !.amounts = IF e = "budget" THEN v ELSE @,
                           !.last_updated = now,
                           !.updating = FALSE, !.outcome = "returned"]
    ELSE [entity[e] EXCEPT !.updating = FALSE, !.outcome = "returned"]

\* sensor.py:205-215 and 331-342: with the value v of the API the entity
\* takes it and the time; with an exception it is marked unavailable and
\* the exception is logged.
AfterCall(e, t, v) ==
    IF pc[t] = "returned"
    THEN [entity[e] EXCEPT !.balance = v,
                           !.amounts = IF e = "budget" THEN v ELSE @,
                           !.last_updated = now,
                           !.updating = FALSE, !.outcome = "returned"]
    ELSE [entity[e] EXCEPT !.available = FALSE,
                           !.updating = FALSE, !.outcome = "returned"]

\* The awaited call of the entity is over.
UpdateDone(e, t) ==
    /\ entity[e].updating
    /\ op[t] = CallOf(e)
    /\ pc[t] \in {"returned", "raised"}
    /\ \E v \in Values : entity' = [entity EXCEPT ![e] = AfterCall(e, t, v)]
    /\ Released(t)
    /\ UNCHANGED <<trace, fn, flow, instanceVars, lock, now, created, exited,
                   storeVars, setup, ak>>

NextSensor ==
    \/ \E t \in OneWorker :
         \/ SetupStart(t)
         \/ UidReturn(t)
         \/ op[t] = "get_unique_id_sync" /\ Finish(t)
         \/ \E e \in Entities :
              (AsyncUpdate(e, t) \/ UpdateDone(e, t)) /\ UNCHANGED handler
         \/ Acquire(t)
         \/ GetSession(t, SomeExcKinds)
         \/ Query(t)
    \/ Tick

SpecSensor == Init /\ [][NextSensor]_vars

\* --------------------------------------------------- the action handlers

\* The services of register_actions (actions.py:47-66) and what they run.
Services == {"bank_sync", "budget_sync"}
SyncOf(svc) ==
    IF svc = "bank_sync" THEN "run_bank_sync_sync" ELSE "run_budget_sync_sync"

\* actions.py:72-74 and 93-95: the handler takes the api of the loaded
\* entry and awaits run_bank_sync / run_budget_sync, which runs on a worker
\* thread.
HandleStart(t, svc) ==
    /\ setup = "ready"
    /\ handler.at \in {"idle", "done", "raised"}
    /\ pc[t] = "idle"
    /\ handler' = [NoHandler EXCEPT !.at = "sync", !.service = svc]
    /\ op' = [op EXCEPT ![t] = SyncOf(svc)]
    /\ pc' = [pc EXCEPT ![t] = "lock"]
    /\ UNCHANGED <<trace, entity, fn, flow, instanceVars, lock, now, created,
                   exited, storeVars, setup, call, ret, ak>>

\* actions.py:74-84 and 95-105: when the sync returned, the handler lists
\* the entities of the entry to update them; an exception of the sync
\* leaves the handler at line 74 / 95.
HandleSynced(t) ==
    /\ handler.at = "sync"
    /\ op[t] = SyncOf(handler.service)
    /\ pc[t] \in {"returned", "raised"}
    /\ handler' = IF pc[t] = "returned"
                  THEN [handler EXCEPT !.at = "updating", !.syncedAt = now]
                  ELSE [handler EXCEPT !.at = "raised"]
    /\ Released(t)
    /\ trace' = [trace EXCEPT ![t] = <<>>]
    /\ UNCHANGED <<entity, fn, flow, instanceVars, lock, now, created, exited,
                   storeVars, setup, ak>>

\* actions.py:82-87 and 103-108: async_update_entity runs the async_update
\* of the entity e.
HandleUpdate(e, t) ==
    /\ handler.at = "updating"
    /\ e \notin handler.started
    /\ AsyncUpdate(e, t)
    /\ handler' = [handler EXCEPT !.started = @ \cup {e}]

\* The API call of the async_update that the handler started is over.
HandleUpdateDone(e, t) ==
    /\ handler.at = "updating"
    /\ e \in handler.started
    /\ UpdateDone(e, t)
    /\ handler' = [handler EXCEPT
                     !.fetched = IF pc[t] = "returned" THEN @ \cup {e} ELSE @]

\* actions.py:87 and 108: gather is over when every update is; the handler
\* returns.
HandleDone ==
    /\ handler.at = "updating"
    /\ handler.started = Entities
    /\ \A e \in Entities : ~entity[e].updating
    /\ handler' = [handler EXCEPT !.at = "done"]
    /\ UNCHANGED <<trace, entity, fn, flow, instanceVars, lock, now, created,
                   exited, storeVars, setup, pc, op, call, ret, ak>>

\* The platform polls an entity (SCAN_INTERVAL, sensor.py:42) while no
\* service call is handled.
Poll(e, t) ==
    /\ handler.at \in {"idle", "done", "raised"}
    /\ AsyncUpdate(e, t) \/ UpdateDone(e, t)
    /\ UNCHANGED handler

NextAction ==
    \/ \E t \in OneWorker :
         \/ SetupStart(t)
         \/ UidReturn(t)
         \/ op[t] = "get_unique_id_sync" /\ Finish(t)
         \/ \E svc \in Services : HandleStart(t, svc)
         \/ Acquire(t)
         \/ GetSession(t, SomeExcKinds)
         \/ BsSync(t) \/ BsBankSync(t) \/ BsCommit(t)
         \/ BuSync(t)
         \/ Query(t)
         \/ HandleSynced(t)
         \/ \E e \in Entities :
              HandleUpdate(e, t) \/ HandleUpdateDone(e, t) \/ Poll(e, t)
    \/ HandleDone
    \/ Tick

SpecAction == Init /\ [][NextAction]_vars

\* -------------------------------------------- the start date (lines 275-296)

\* Days are counted from date.min; datetime arithmetic that leaves
\* date.min .. date.max raises OverflowError. Today is datetime.now().
MinDay == 0
MaxDay == 121
Today == 100

\* Line 276: "default to last 20 days"
DefaultDays == 20

\* The characters of sync_days.
DayDigits == {"0", "2"}
DayChars == {"a", "l", "L", " ", "-"} \cup DayDigits

\* sync_days: None, or a string.
NoString == [none |-> TRUE, text |-> <<>>]
SyncDays == {NoString} \cup
            {[none |-> FALSE, text |-> x] : x \in SeqsUpTo(DayChars, MaxDaysLen)}

DigitValue(c) == IF c = "2" THEN 2 ELSE 0

RECURSIVE Decimal(_)
Decimal(digits) ==
    IF digits = <<>> THEN 0
    ELSE 10 * Decimal(SubSeq(digits, 1, Len(digits) - 1))
         + DigitValue(digits[Len(digits)])

\* int(x): white space around the number is skipped, a sign may stand
\* before the digits, and there is at least one digit; anything else is a
\* ValueError.
IntOf(x) ==
    LET t == Strip(x)
        negative == t # <<>> /\ Head(t) = "-"
        digits == IF negative THEN Tail(t) ELSE t
    IN IF digits # <<>> /\ \A i \in 1..Len(digits) : digits[i] \in DayDigits
       THEN [ok |-> TRUE,
             value |-> IF negative THEN 0 - Decimal(digits) ELSE Decimal(digits)]
       ELSE [ok |-> FALSE, value |-> 0]

\* (datetime.datetime.now() - datetime.timedelta(days = n)).isoformat()
DaysAgo(n) ==
    IF Today - n < MinDay \/ Today - n > MaxDay
    THEN [raised |-> TRUE, exc |-> "OverflowError", warned |-> FALSE,
          start |-> [empty |-> TRUE, day |-> 0]]
    ELSE [raised |-> FALSE, exc |-> "none", warned |-> FALSE,
          start |-> [empty |-> FALSE, day |-> Today - n]]

\* Lines 276-285: startdate, and whether the warning was logged. Only the
\* ValueError of int() is caught.
StartDate(sync_days) ==
    IF sync_days.none \/ sync_days.text = <<>>
    THEN DaysAgo(DefaultDays)
    ELSE IF LowerOf(sync_days.text) = <<"a", "l", "l">>
         THEN [raised |-> FALSE, exc |-> "none", warned |-> FALSE,
               start |-> [empty |-> TRUE, day |-> 0]]
         ELSE IF IntOf(sync_days.text).ok
              THEN DaysAgo(IntOf(sync_days.text).value)
              ELSE [DaysAgo(DefaultDays) EXCEPT !.warned = TRUE]

\* Line 296: if not startdate == "": queryParams["start"] = startdate
StartParam(r) ==
    IF r.raised \/ r.start.empty THEN [sent |-> FALSE, day |-> 0]
    ELSE [sent |-> TRUE, day |-> r.start.day]

InitStart ==
    /\ Constructed
    /\ fn \in [kind : {"startdate"}, sync_days : SyncDays, done : {FALSE},
               out : {DaysAgo(DefaultDays)},
               param : {[sent |-> FALSE, day |-> 0]}]

\* The import comes to an account with the sync_days of the service call.
MakeStart ==
    /\ fn.kind = "startdate" /\ ~fn.done
    /\ fn' = [fn EXCEPT !.done = TRUE,
                        !.out = StartDate(fn.sync_days),
                        !.param = StartParam(StartDate(fn.sync_days))]
    /\ UNCHANGED <<handler, trace, entity, instanceVars, lock, now, created, exited, storeVars,
                   setup, pc, op, call, ret, ak, flow>>

NextStart == MakeStart

SpecStart == InitStart /\ [][NextStart]_vars

\* ================================================================ claims

\* A thread is inside get_session or inside a remote call of its operation.
InFlightPcs == {"gs77", "gs88", "gs100", "gs105",
                "query", "bs226", "bs227", "bs228", "bu407"}
InFlight(t) == pc[t] \in InFlightPcs

\* get_session has just returned to thread t: the history of the call is
\* complete and the operation has not gone on yet.
AtReturn(t) == call[t].result = "returned" /\ pc[t] = BodyPc(op[t])

\* C1: at most one operation is in flight against the remote session at any
\* time, because every operation holds the one lock while it is inside
\* get_session or a remote call.
C1_OneInFlightUnderTheLock ==
    /\ \A t1, t2 \in Threads : InFlight(t1) /\ InFlight(t2) => t1 = t2
    /\ \A t \in Threads : InFlight(t) => lock = t

\* C2: a get_session call that starts with a cached session whose stamp plus
\* 30 minutes is earlier than the current time disposes of that session and
\* discards it, and the handle it returns is that of a session created
\* during the call, never that of the old session.
C2_OldAtEntry(t) ==
    call[t].entryActual # None /\ call[t].entryStamp + 30 < call[t].entryNow

C2_SessionTTL ==
    \A t \in Threads :
        pc[t] \in {"gs88", "gs100", "gs105"} \/ AtReturn(t) =>
            (C2_OldAtEntry(t) =>
                /\ call[t].entryActual \in exited
                /\ actual # call[t].entryActual
                /\ AtReturn(t) =>
                     /\ call[t].handle # call[t].entryActual
                     /\ call[t].handle # None
                     /\ call[t].handle = call[t].createdId)

C2_Witness == \E t \in Threads : AtReturn(t) /\ C2_OldAtEntry(t)

\* C3: a cached session whose validation raised or reported a negative
\* result is discarded, and a new session is created in the same call: the
\* failed session is never the one returned, and a call whose re-creation
\* succeeded returns without an error.
C3_FailedValidationReplaced ==
    \A t \in Threads :
        call[t].failed # None =>
            /\ actual # call[t].failed
            /\ AtReturn(t) =>
                 /\ call[t].handle # call[t].failed
                 /\ call[t].handle # None
                 /\ call[t].handle = call[t].createdId
            /\ call[t].createdId # None => call[t].result # "raised"
            /\ pc[t] = "gs105" => call[t].createdId # None

C3_Witness == \E t \in Threads : AtReturn(t) /\ call[t].failed # None

\* C4: get_session returns the handle of the cached session, which passed a
\* validation during the call (on reuse or at creation), or it raises; when
\* the validation of a newly created session reports not validated, it
\* raises a plain Exception and returns no handle.
C4_ValidatedOrRaises ==
    \A t \in Threads :
        /\ AtReturn(t) =>
             /\ call[t].handle = actual
             /\ call[t].handle # None
             /\ call[t].handle = call[t].validated
             /\ ~call[t].notValidated
        /\ call[t].notValidated =>
             /\ call[t].result = "raised"
             /\ call[t].exc = "Exception"
             /\ call[t].handle = None
             /\ pc[t] = ExcPc(op[t])

C4_Witness ==
    \E t \in Threads : call[t].notValidated /\ call[t].result = "raised"

\* ------------------------------------------------------------ the importer

Importing(t) == op[t] = "run_akahu_bank_sync_sync"
AkPcs == {"ak252", "ak257", "ak265", "ak300", "ak305", "ak380", "ak389", "ak397"}

\* The transaction the importer of thread t is at.
AkKey(t) == Key(ak[t].acct, Head(ak[t].items))

\* No session shows a transaction twice.
NoDuplicates ==
    \A s \in Sessions, k \in Keys : remote[k] + pend[s][k] <= 1

\* A transaction is added to a session only where the session showed none
\* with that key.
CreateOnlyUnmatched ==
    \A s \in Sessions, k \in Keys :
       pend'[s][k] > pend[s][k] => ~Visible(s, k)

\* C5: the importer creates a transaction only when match_transaction found
\* none with its date, account and imported id, so at most one transaction
\* exists per (date, account, imported id), also when the feed lists a
\* transaction on two pages or in two runs.
C5_AkahuDedup == []NoDuplicates /\ [][CreateOnlyUnmatched]_vars

\* A later run meets a transaction an earlier run committed, and matches it.
C5_Witness ==
    \E t \in Threads :
       /\ Importing(t) /\ pc[t] = "ak389"
       /\ ak[t].found /\ ak[t].made[AkKey(t)] = 0
       /\ remote[AkKey(t)] = 1

\* Spellings of the literal "none".
NoneSpellings == {"none", "None", "NONE", "nOnE"}

\* A next-cursor that is null, empty or the literal "none" in any case.
Terminal(c) == c.null \/ c.text = "" \/ c.text \in NoneSpellings

\* C6: the first request of an account carries no cursor, every later
\* request carries the next-cursor of the response before it, and the loop
\* over the pages of an account stops exactly when the next-cursor returned
\* is null, empty or "none" in any letter case.
C6_PaginationCursor ==
    \A t \in Threads : Importing(t) =>
       /\ pc[t] \in {"ak305", "ak380", "ak389"} =>
            IF ak[t].pages = 0
            THEN ~ak[t].sentCursor
            ELSE ak[t].sentCursor /\ ak[t].sent = ak[t].prev
       /\ (pc[t] = "ak300" /\ ak[t].pages > 0) => ~Terminal(ak[t].cursor)
       /\ (pc[t] = "ak265" /\ ak[t].acct > 0) =>
            ak[t].pages >= 1 /\ Terminal(ak[t].cursor)

\* The second request of an account carried the cursor of the first
\* response, and the second response ends the account with "None".
C6_Witness ==
    \E t \in Threads :
       /\ Importing(t) /\ pc[t] = "ak265"
       /\ ak[t].pages = 2 /\ ak[t].sentCursor /\ ak[t].sent = Str("c2")
       /\ ak[t].cursor = Str("None")

\* C7: a run that completes has committed exactly once, after the last
\* transaction of the last account; before that, between pages and between
\* accounts, it has not committed.
C7_CommitOnceAtEnd ==
    \A t \in Threads : Importing(t) =>
       /\ pc[t] \in AkPcs => ak[t].commits = 0
       /\ pc[t] = "returned" =>
            /\ ak[t].commits = 1
            /\ ak[t].acct = ak[t].accounts
            /\ ak[t].items = <<>>
            /\ \A k \in Keys : pend[SessionOf(t)][k] = 0

\* A run over all accounts completed, and what it created is on the server.
C7_Witness ==
    \E t \in Threads :
       /\ Importing(t) /\ pc[t] = "returned"
       /\ ak[t].accounts = MaxAccounts
       /\ \E k \in Keys : ak[t].made[k] = 1 /\ remote[k] = 1

\* The step in which an exception leaves the importer of thread t.
AkRaises(t) == Importing(t) /\ pc[t] \in AkPcs /\ pc'[t] # pc[t] /\ call'[t].exc # "none"

\* The exception goes to the caller; the step neither commits nor rolls
\* back, and what the run created is pending in the cached session.
C8_Raise(t) ==
    AkRaises(t) =>
       /\ pc'[t] = "raised"
       /\ ak[t].commits = 0 /\ ak'[t] = ak[t]
       /\ remote' = remote /\ pend' = pend /\ actual' = actual
       /\ actual = SessionOf(t)
       /\ \A k \in Keys : pend'[actual'][k] >= ak[t].made[k]

\* After the exception the run does nothing more: the caller takes it.
C8_Raised(t) ==
    (Importing(t) /\ pc[t] = "raised" /\ pc'[t] # pc[t]) =>
       /\ pc'[t] = "idle"
       /\ remote' = remote /\ pend' = pend /\ actual' = actual

\* A commit sends everything that is pending in the cached session.
C8_NextCommit(t) ==
    (pc[t] \in {"bs228", "ak397"} /\ pc'[t] = "returned") =>
       /\ \A k \in Keys : remote'[k] = remote[k] + pend[actual][k]
       /\ \A k \in Keys : pend'[actual][k] = 0

\* C8: an exception in the importer goes straight to the caller: nothing
\* more is processed, nothing is retried, the run does not commit, what it
\* created is not rolled back but stays pending in the cached session, and
\* the next commit on that session sends it to the server.
C8_FailurePolicy ==
    [][\A t \in Threads : C8_Raise(t) /\ C8_Raised(t) /\ C8_NextCommit(t)]_vars

\* A run has raised after it created a transaction, which is pending.
C8_Witness ==
    \E t \in Threads :
       /\ Importing(t) /\ pc[t] = "raised"
       /\ \E k \in Keys : /\ ak[t].made[k] = 1
                          /\ pend[actual][k] = 1
                          /\ remote[k] = 0

\* ---------------------------------------------------------- test_connection

\* The failures the handlers of test_connection_sync name.
MappedKinds == {"SSLError", "ConnectionError", "AuthorizationError",
                "UnknownFileId", "InvalidFile", "InvalidZipFile"}

Testing(t) == op[t] = "test_connection_sync"

\* C9: when get_session raises an SSL, connection, authorization or
\* unknown/invalid-file failure, test_connection returns an error code, and
\* the config flow shows the form again with it and creates no entry.
C9_MappedFailuresShowForm ==
    /\ \A t \in Threads :
         (Testing(t) /\ pc[t] = "returned" /\ call[t].exc \in MappedKinds)
            => ret[t] # NoValue
    /\ flow.exc \in MappedKinds => flow.at = "form" /\ flow.error # NoValue

\* C10: test_connection never raises; an exception of get_session that is
\* none of the mapped kinds is swallowed, test_connection returns None, and
\* the config flow creates the entry.
C10_SwallowedIsSuccess ==
    /\ \A t \in Threads : Testing(t) =>
         /\ pc[t] # "raised"
         /\ (pc[t] = "returned" /\ call[t].exc \notin MappedKinds \cup {"none"})
               => ret[t] = NoValue
    /\ flow.exc \notin MappedKinds \cup {"none"} => flow.at = "entry"

\* "Session not validated" was raised in the test, and the entry exists.
C10_Witness == flow.at = "entry" /\ flow.exc = "Exception"

\* ------------------------------------------------------------------ payee

\* The digits at the very end of d.
TrailingDigits(d) == DigitRun(d, Len(d))

\* d without the n characters at its end.
DropLast(d, n) == SubSeq(d, 1, Len(d) - n)

\* C11 as the specification words it: the payee is d without its trailing
\* run of three or more digits, trimmed, and is d itself when d ends in fewer
\* than three digits.
C11_PayeeUnchangedBelowThree ==
    (fn.kind = "payee" /\ fn.done) =>
       IF TrailingDigits(fn.d) >= 3
       THEN fn.payee = Strip(DropLast(fn.d, TrailingDigits(fn.d)))
       ELSE fn.payee = fn.d

\* d without a line break that ends it.
Chomp(d) == IF d # <<>> /\ d[Len(d)] = NL THEN DropLast(d, 1) ELSE d

\* C11: the payee is the description without the run of three or more
\* digits that ends it (a line break may follow the run), trimmed of
\* surrounding white space; a description that ends in fewer than three
\* digits is only trimmed.
C11_PayeeStripsDigitsAndTrims ==
    (fn.kind = "payee" /\ fn.done) =>
       LET n == TrailingDigits(Chomp(fn.d))
       IN IF n >= 3
          THEN fn.payee = Strip(DropLast(Chomp(fn.d), n))
          ELSE fn.payee = Strip(fn.d)

\* "A1111" has become "A", and " A11" has become "A11".
C11_Witness ==
    /\ fn.kind = "payee" /\ fn.done
    /\ \/ fn.d = <<"A", "1", "1", "1", "1">> /\ fn.payee = <<"A">>
       \/ fn.d = <<" ", "A", "1", "1">> /\ fn.payee = <<"A", "1", "1">>

\* ------------------------------------------------------------------ notes

\* The parameters of a transaction have been built without an exception.
Built == fn.kind = "notes" /\ fn.done /\ ~fn.params.raised

\* A value that holds "cdn." or "akahu" in some letter case.
Redactable(v) ==
    \/ Contains(LowerOf(v), <<"c", "d", "n", ".">>)
    \/ Contains(LowerOf(v), <<"a", "k", "a", "h", "u">>)

\* The fields without the i-th.
Without(fields, i) == SubSeq(fields, 1, i - 1) \o SubSeq(fields, i + 1, Len(fields))

\* The notes of the transaction fn.txn had it other meta and merchant.
NotesWith(meta, merchant) ==
    ParamsOf([fn.txn EXCEPT !.meta = meta, !.merchant = merchant],
             fn.sync_categories).notes

\* The fields f of the transaction, of which the i-th is looked at: with a
\* value to redact the notes are as they are without the field, and any
\* other value stands in the notes as it is.
C12_Field(f, i, notesWithout) ==
    f[i].key # "_id" =>
       IF Redactable(f[i].value)
       THEN fn.params.notes = notesWithout
       ELSE Contains(fn.params.notes, f[i].value)

\* C12: a meta or merchant field (other than _id) whose value holds "cdn."
\* or "akahu" in any letter case adds nothing to the notes, which are the
\* same as if the field were absent; any other value is added unchanged.
C12_Redaction ==
    Built =>
       /\ \A i \in 1..Len(fn.txn.meta) :
            C12_Field(fn.txn.meta, i,
                      NotesWith(Without(fn.txn.meta, i), fn.txn.merchant))
       /\ \A i \in 1..Len(fn.txn.merchant) :
            C12_Field(fn.txn.merchant, i,
                      NotesWith(fn.txn.meta, Without(fn.txn.merchant, i)))

\* ---------------------------------------------------- accounts and budgets

\* An operation of the reader has returned a value.
Read(o) == fn.kind = "reader" /\ fn.done /\ fn.op = o /\ ~fn.out.raised

\* The Budgets that get_budgets or get_budget has returned.
ReturnedBudgets ==
    IF Read("get_budgets_sync")
    THEN {fn.out.value[i] : i \in 1..Len(fn.out.value)}
    ELSE IF Read("get_budget_sync") THEN {fn.out.value} ELSE {}

\* The rows the remote has of the category `name` in month m.
RowsIn(name, m) ==
    {i \in 1..Len(fn.rows) : fn.rows[i].category = name /\ fn.rows[i].month = m}

\* The BudgetAmounts of the budget b for month m.
AmountsIn(b, m) == {i \in 1..Len(b.amounts) : b.amounts[i].month = m}

\* C13: the amounts of every Budget that get_budgets and get_budget return
\* are sorted ascending by month string, whatever the order of the rows of
\* the remote, and hold exactly one BudgetAmount per row of that category.
C13_AmountsSortedOnePerRow ==
    \A b \in ReturnedBudgets :
       /\ \A i, j \in 1..Len(b.amounts) :
            i < j => ~StrLess(b.amounts[j].month, b.amounts[i].month)
       /\ \A m \in Months :
            Cardinality(AmountsIn(b, m)) = Cardinality(RowsIn(b.name, m))

\* get_budgets has returned a budget whose first two rows came in
\* descending order of month.
C13_Witness ==
    /\ Read("get_budgets_sync")
    /\ Len(fn.rows) >= 2
    /\ fn.rows[1].category = "Food" /\ fn.rows[2].category = "Food"
    /\ StrLess(fn.rows[2].month, fn.rows[1].month)

\* C14: a row whose amount is null gives a BudgetAmount whose amount is
\* absent; no null row gives the number zero.
C14_NullAmountIsAbsent ==
    \A b \in ReturnedBudgets : \A m \in Months :
       Cardinality({i \in RowsIn(b.name, m) : fn.rows[i].amount.null})
          <= Cardinality({i \in AmountsIn(b, m) : b.amounts[i].amount = Absent})

\* get_budget has returned a budget that has a row with a null amount.
C14_Witness ==
    /\ Read("get_budget_sync")
    /\ \E i \in 1..Len(fn.rows) :
         fn.rows[i].category = fn.name /\ fn.rows[i].amount.null

\* C15: get_account(name) fails with "not found" when the remote has no
\* account of that name and else returns the name and the balance of the
\* account; get_budget(name) fails with "not found" when the remote has no
\* budget row for name.
C15_NotFound ==
    (fn.kind = "reader" /\ fn.done) =>
       /\ fn.op = "get_account_sync" =>
            IF fn.balances[fn.name].null
            THEN fn.out.raised /\ fn.out.error = "not found"
            ELSE /\ ~fn.out.raised
                 /\ fn.out.value = [name |-> fn.name,
                                    balance |-> fn.balances[fn.name].v]
       /\ fn.op = "get_budget_sync" =>
            (fn.out.raised <=>
               \A i \in 1..Len(fn.rows) : fn.rows[i].category # fn.name)
       /\ fn.out.raised => fn.out.error = "not found"

\* get_budget has failed: the remote has rows, none of them for the name.
C15_Witness ==
    /\ fn.kind = "reader" /\ fn.done /\ fn.op = "get_budget_sync"
    /\ fn.out.raised /\ Len(fn.rows) > 0

\* ---------------------------------------------------------------- sensors

\* The step in which the API call of the entity e ends with an exception.
CallFails(e) ==
    /\ entity[e].updating /\ ~entity'[e].updating
    /\ \E t \in Threads : op[t] = CallOf(e) /\ pc[t] = "raised"

\* C16: when the API call of a sensor's async_update raises, async_update
\* does not raise, the entity is marked unavailable, the balance and the
\* amounts it held stay as they were, and the call is not made again in
\* that update.
C16_FailedUpdate ==
    [][\A e \in Entities :
         CallFails(e) =>
            /\ entity'[e].outcome = "returned"
            /\ ~entity'[e].available
            /\ entity'[e].balance = entity[e].balance
            /\ entity'[e].amounts = entity[e].amounts
            /\ entity'[e].last_updated = entity[e].last_updated
            /\ entity'[e].calls = 1
            /\ \A t \in Threads : op[t] = CallOf(e) => pc'[t] = "idle"]_vars

\* The budget sensor held the value 2 when its update failed.
C16_Witness ==
    /\ entity["budget"].outcome = "returned"
    /\ entity["budget"].calls = 1
    /\ ~entity["budget"].available
    /\ entity["budget"].balance = 2 /\ entity["budget"].amounts = 2

\* ------------------------------------------------------------- start date

\* C17: sync_days "all" in any letter case gives no start parameter; a
\* string that parses as an integer n gives the cutoff n days before now; a
\* string that does not parse gives the cutoff 20 days before now after a
\* warning, and nothing is raised.
C17_StartDate ==
    (fn.kind = "startdate" /\ fn.done /\ ~fn.sync_days.none) =>
       IF LowerOf(fn.sync_days.text) = <<"a", "l", "l">>
       THEN ~fn.out.raised /\ ~fn.param.sent
       ELSE IF IntOf(fn.sync_days.text).ok
            THEN /\ ~fn.out.raised
                 /\ fn.param.sent
                 /\ fn.param.day = Today - IntOf(fn.sync_days.text).value
            ELSE /\ ~fn.out.raised
                 /\ fn.out.warned
                 /\ fn.param.sent
                 /\ fn.param.day = Today - 20

\* ------------------------------------------------------ the sync triggers

IsPrefix(p, q) == Len(p) <= Len(q) /\ SubSeq(q, 1, Len(p)) = p

\* The names of the calls thread t has made, in their order.
CallNames(t) == [i \in 1..Len(trace[t]) |-> trace[t][i].name]

\* C18: run_bank_sync_sync calls sync, then run_bank_sync, then commit, in
\* this order, and run_budget_sync_sync calls sync only and never commit;
\* each call is made by a thread that holds the lock and to which
\* get_session has returned.
C18_SyncCallSequence ==
    \A t \in Threads :
       /\ \A i \in 1..Len(trace[t]) : trace[t][i].locked /\ trace[t][i].session
       /\ op[t] = "run_bank_sync_sync" =>
            /\ IsPrefix(CallNames(t), <<"sync", "run_bank_sync", "commit">>)
            /\ pc[t] = "returned" =>
                 CallNames(t) = <<"sync", "run_bank_sync", "commit">>
       /\ op[t] = "run_budget_sync_sync" =>
            /\ IsPrefix(CallNames(t), <<"sync">>)
            /\ pc[t] = "returned" => CallNames(t) = <<"sync">>

\* A bank sync has returned while a budget sync of the other thread, which
\* has made no call yet, waits for the lock.
C18_Witness ==
    \E t, u \in Threads :
       /\ op[t] = "run_bank_sync_sync" /\ pc[t] = "returned"
       /\ Len(trace[t]) = 3
       /\ op[u] = "run_budget_sync_sync" /\ trace[u] = <<>>

\* ------------------------------------------------- every transaction once

\* The transactions of the page at hand that the run is done with; the one
\* it is at stays the first of items until the rules have run.
Processed(t) == ak[t].page.size - Len(ak[t].items)

\* For every transaction the run is done with, one lookup was made, one
\* transaction was found or created, and the rules were run once; for the
\* transaction it is at, the lookup is made first and the rules come last.
OncePerTransaction(t) ==
    LET p == ak[t].page
    IN /\ pc[t] = "ak305" =>
            /\ p.lookups = Processed(t)
            /\ p.hits + p.creates = Processed(t)
            /\ p.rules = Processed(t)
       /\ pc[t] = "ak380" =>
            /\ p.lookups = Processed(t) + 1
            /\ p.hits + p.creates = Processed(t) + (IF ak[t].found THEN 1 ELSE 0)
            /\ p.rules = Processed(t)
       /\ pc[t] = "ak389" =>
            /\ p.lookups = Processed(t) + 1
            /\ p.hits + p.creates = Processed(t) + 1
            /\ p.rules = Processed(t)

\* A page is left only when all its transactions are done.
PageLeftWhenDone(t) ==
    (Importing(t) /\ pc[t] = "ak305" /\ pc'[t] \in {"ak265", "ak300"}) =>
       /\ ak[t].items = <<>>
       /\ ak[t].page.rules = ak[t].page.size
       /\ ak[t].page.lookups = ak[t].page.size

\* C19: every transaction of every fetched page, the last page of an
\* account included, is processed exactly once: a lookup is made, a
\* transaction is created only when none was found, and then the rules are
\* run on the transaction, found or created.
C19_EveryTransactionOnce ==
    /\ [](\A t \in Threads : Importing(t) => OncePerTransaction(t))
    /\ [][\A t \in Threads : PageLeftWhenDone(t)]_vars

\* The last page of an account listed a transaction twice: it was created,
\* then found, and the rules were run both times.
C19_Witness ==
    \E t \in Threads :
       /\ Importing(t) /\ pc[t] = "ak305" /\ ak[t].items = <<>>
       /\ LastPage(ak[t].cursor)
       /\ ak[t].page = [size |-> 2, lookups |-> 2, hits |-> 1, creates |-> 1,
                        rules |-> 2]

\* --------------------------------------------------------- sync_categories

Kept(fields) ==
    LET f == SelectSeq(fields, LAMBDA x : x.key # "_id")
    IN [i \in 1..Len(f) |-> cleanup_meta(f[i].value)]

\* The values joined by two blanks.
RECURSIVE Joined(_)
Joined(vs) ==
    IF vs = <<>> THEN <<>>
    ELSE IF Len(vs) = 1 THEN vs[1]
    ELSE vs[1] \o <<" ", " ">> \o Joined(Tail(vs))

\* A part of the notes: the text and one blank, or nothing for no text.
Block(text) == IF text = <<>> THEN <<>> ELSE text \o <<" ">>

\* The name of the category that is resolved for the transaction fn.txn.
ResolvedCategory ==
    IF fn.sync_categories /\ fn.txn.category.present
    THEN fn.txn.category.name ELSE <<>>

\* C21: the notes of an imported transaction are, in this order, the summary
\* of the meta fields, the summary of the merchant fields, the name of the
\* category (with sync_categories and a category in the feed only) and the
\* description, each part before the description followed by one blank;
\* the notes end with the description as it was received, which is not the
\* payee once the trailing digits are stripped.
C21_NotesOrder ==
    Built =>
       LET d == fn.txn.description
           n == fn.params.notes
       IN /\ n = Block(Joined(Kept(fn.txn.meta)))
                   \o Block(Joined(Kept(fn.txn.merchant)))
                   \o Block(ResolvedCategory)
                   \o d
          /\ Len(n) >= Len(d)
          /\ SubSeq(n, Len(n) - Len(d) + 1, Len(n)) = d
          /\ fn.params.payee = PayeeOf(d)

\* Notes of all four parts: meta "x", merchant "x  x", category "F" and the
\* description "d111", of which the payee is "d".
C21_Witness ==
    /\ Built
    /\ fn.sync_categories /\ fn.txn.category.present
    /\ fn.params.notes = <<"x", " ", "x", " ", " ", "x", " ", "F", " ",
                           "d", "1", "1", "1">>
    /\ Len(fn.txn.meta) = 1 /\ Len(fn.txn.merchant) = 2
    /\ fn.params.payee = <<"d">>

\* ---------------------------------------------------------- amount / 100

\* C22: in get_budgets and get_budget a row whose remote amount is the
\* integer a gives a BudgetAmount whose amount is a / 100, and the amount is
\* absent for the rows whose remote amount is null only: per budget and
\* month there are as many amounts a / 100 as rows of amount a, and as many
\* absent amounts as null rows.
C22_AmountIsHundredth ==
    \A b \in ReturnedBudgets : \A m \in Months :
       /\ \A raw \in RawAmounts \ {Null} :
            Cardinality({i \in RowsIn(b.name, m) : fn.rows[i].amount = raw})
               = Cardinality({i \in AmountsIn(b, m) :
                                b.amounts[i].amount = Ratio(raw.v, 100)})
       /\ Cardinality({i \in RowsIn(b.name, m) : fn.rows[i].amount.null})
             = Cardinality({i \in AmountsIn(b, m) :
                              b.amounts[i].amount = Absent})

\* ------------------------------------------------------------ absolute TTL

\* The stamp is written by the creation of a session and by nothing else.
C23_StampOnlyOnCreate ==
    /\ sessionStartedAt' # sessionStartedAt =>
          actual' # None /\ actual' # actual /\ sessionStartedAt' = now
    /\ (actual' # None /\ actual' # actual) => sessionStartedAt' = now
    /\ actual' = actual => sessionStartedAt' = sessionStartedAt

\* The entry of get_session (lines 77-85) drops the cached session when its
\* stamp is more than the TTL back, whoever used the session since.
C23_DroppedAfterTTL ==
    \A t \in Threads :
       (pc[t] = "gs77" /\ pc'[t] = "gs88" /\ actual # None
          /\ now - sessionStartedAt > SESSION_TIMEOUT) => actual' = None

\* C23: the stamp sessionStartedAt is written only when get_session creates
\* a session, with the time of the creation, and no step that keeps the
\* cached session changes it; the TTL is therefore absolute: the first
\* get_session made more than 30 minutes after the creation drops the
\* session, however it was used in between.
C23_AbsoluteTTL == [][C23_StampOnlyOnCreate /\ C23_DroppedAfterTTL]_vars

\* The session created at minute 0 was handed to an operation of another
\* thread, and the get_session made at minute 60 has dropped it.
C23_Witness ==
    \E t, u \in Threads :
       /\ t # u
       /\ pc[u] = "returned" /\ call[u].result = "returned"
       /\ call[u].handle = call[t].entryActual
       /\ pc[t] = "gs88"
       /\ call[t].entryActual # None
       /\ call[t].entryStamp = 0 /\ call[t].entryNow = 2 * SESSION_TIMEOUT
       /\ actual = None

\* ----------------------------------------------------- the action handlers

\* C24: when the handler of bank_sync or budget_sync has returned, every
\* account and budget entity of the entry has fetched its value from the
\* API after the sync was over, and none holds a value read before the
\* sync; when the sync raised, no update of an entity was started.
C24_EntitiesRefreshedAfterSync ==
    /\ handler.at = "done" =>
          \A e \in Entities :
             /\ e \in handler.fetched
             /\ entity[e].last_updated >= handler.syncedAt
    /\ handler.at \in {"sync", "raised"} => handler.started = {}

\* ------------------------------------------------------------ termination

\* The import of thread t has begun: get_session has returned to it.
Begun(t) == Importing(t) /\ pc[t] \in AkPcs

\* The import of thread t is over and the lock is released.
Ended(t) == Importing(t) /\ pc[t] \in {"returned", "raised"} /\ lock # t

\* Thread u is inside a lock-guarded operation.
InGuarded(u) == pc[u] \in InFlightPcs \cup AkPcs

\* C25: against a feed of which every account comes to a page with an
\* empty or "none" next-cursor, and with remote calls that return, an
\* import that has begun ends with the lock released, and an import that
\* returns has committed; an import that has begun goes on until it returns
\* or raises, and while it runs it holds the lock and no other thread is
\* inside a lock-guarded operation.
C25_ImportTerminates ==
    /\ \A t \in Threads : Begun(t) ~> Ended(t)
    /\ [](\A t \in Threads :
            /\ Begun(t) =>
                 /\ lock = t
                 /\ \A u \in Threads \ {t} : ~InGuarded(u)
            /\ (Importing(t) /\ pc[t] = "returned") =>
                 ak[t].commits = 1 /\ lock # t)
    /\ [][\A t \in Threads :
            Begun(t) => /\ op'[t] = op[t]
                        /\ pc'[t] \in AkPcs \cup {"returned", "raised"}]_vars

\* An import over two accounts, one of them of two pages, has returned
\* while the reader waits for the lock.
C25_Witness ==
    /\ Ended(Importer) /\ pc[Importer] = "returned"
    /\ ak[Importer].accounts = 2 /\ ak[Importer].pages = 2
    /\ pc[Reader] = "lock"

\* ------------------------------------------------------- release of the lock

\* Thread t has left a lock-guarded operation, by a return or an exception.
Left(t) == op[t] \in LockedOps /\ pc[t] \in {"returned", "raised"}

\* C26: a lock-guarded operation that has returned or raised, be it out of
\* get_session or out of a remote call, does not hold the lock; the lock is
\* held by a thread inside a lock-guarded operation only, so that it is free
\* for a waiting operation whenever no other operation is running.
C26_LockReleasedOnExit ==
    /\ \A t \in Threads : Left(t) => lock # t
    /\ \A t \in Threads : lock = t => InGuarded(t) /\ op[t] \in LockedOps
    /\ (\A t \in Threads : ~InGuarded(t)) => lock = "free"

\* The bank sync raised out of a remote call and the import raised out of
\* get_session; the lock is free.
C26_Witness ==
    /\ Left(Reader) /\ pc[Reader] = "raised"
    /\ op[Reader] = "run_bank_sync_sync" /\ Len(trace[Reader]) = 2
    /\ Left(Importer) /\ pc[Importer] = "raised"
    /\ call[Importer].result = "raised"
    /\ lock = "free"

\* ------------------------------------------------- get_session that raises

\* The step in which the get_session call of thread t raises.
GsRaises(t) == call[t].result = "none" /\ call'[t].result = "raised"

\* C27: when get_session raises, because the creation of a session or the
\* validation of the new session failed, no session is cached: the session
\* that the call found expired or invalid is not cached again; a session
\* that was closed or dropped is never the cached one, and a get_session
\* call that begins without a cached session returns only a session that it
\* created itself.
C27_NothingCachedAfterRaise ==
    /\ [][\A t \in Threads :
            GsRaises(t) =>
               /\ pc[t] = "gs100" /\ actual = None
               /\ actual' = None
               /\ call'[t].handle = None]_vars
    /\ [](/\ actual # None => actual \notin exited
          /\ \A t \in Threads :
               /\ call[t].failed # None => actual # call[t].failed
               /\ (AtReturn(t) /\ call[t].entryActual = None) =>
                     /\ call[t].handle = call[t].createdId
                     /\ call[t].handle # None)

\* get_session found the cached session invalid, dropped it and raised at
\* the creation of a new one: nothing is cached.
C27_Witness ==
    \E t \in Threads :
       /\ call[t].result = "raised" /\ pc[t] = "raised"
       /\ call[t].failed # None
       /\ actual = None

\* ------------------------------------------------------------ availability

\* C28: an account or budget sensor is available when it is made; the step
\* in which the API call of its async_update fails makes it unavailable,
\* nothing else does, and no step makes an unavailable entity available
\* again, also not an update that succeeds and refreshes its balance.
C28_AvailabilityMonotone ==
    /\ \A e \in Entities : entity[e].available
    /\ [][\A e \in Entities :
            /\ ~entity[e].available => ~entity'[e].available
            /\ CallFails(e) => ~entity'[e].available
            /\ (entity[e].available /\ ~entity'[e].available) => CallFails(e)
         ]_vars

\* The account sensor is unavailable after a failed update, and a later
\* update at the last minute of the clock has refreshed its balance.
C28_Witness ==
    /\ ~entity["account"].available
    /\ entity["account"].last_updated = MaxNow
    /\ entity["account"].balance = 2
    /\ entity["account"].outcome = "returned" /\ entity["account"].calls = 1

====
